---- MODULE Spec2Model ----
(***************************************************************************)
(* A model of the mindmate backend: the journal, conversation, insights    *)
(* and planner agents and the HTTP handlers in front of them.              *)
(*                                                                         *)
(* Scores are integers (the unit of the 0..10 mood scale); a mean is kept  *)
(* as an exact fraction.  Text is a TLA+ string, read character by         *)
(* character with SubSeq, so that Python's  `w in text`  is a real         *)
(* substring test and `text.lower()` a real conversion.                    *)
(***************************************************************************)
EXTENDS Integers, Sequences, FiniteSets, TLC

VARIABLES
    use_llm,       \* settings.OPENAI_API_KEY is set: every agent has use_llm = True
    words,         \* the words of the latest analysis request's content
    replies,       \* what the model answered to the four stages of that request
    analysis,      \* the result analyze_journal_entry returned for it
    prevWords,     \* history: the text this one was obtained from by adding a word
    prevAnalysis,  \* history: the result returned for that text
    added,         \* history: number of words added since the text was first sent
    conversation_memories,  \* ConversationAgent.conversation_memories: session_id -> memory
    reqs,          \* the conversation requests being served, one per worker
    conversations, \* the rows of the conversations table, in insertion order
    journal_entries,  \* the rows of the journal_entries table, in insertion order
    now,           \* datetime.utcnow(), in days
    jout,          \* the response of the latest request that reads or writes a table
    arg,           \* the arguments of the agent call being made
    out            \* what that call returned

journalVars == <<words, replies, analysis, prevWords, prevAnalysis, added>>

convVars == <<conversation_memories, reqs, conversations>>

tableVars == <<journal_entries, now, jout>>

agentVars == <<arg, out>>

vars == <<use_llm, journalVars, convVars, tableVars, agentVars>>

\* The value of "nothing yet": no request was made, no model call was issued.
None == [kind |-> "none"]

-----------------------------------------------------------------------------
(* Bounds *)

\* Number of vocabulary words a first request's content is made of (at most).
MaxWords == 2

\* Number of times a text is sent again with one more word.
MaxAdded == 1

\* Number of conversation requests served at the same time.
MaxReqs == 2

\* Number of rows the conversations table grows to.
MaxRows == 2

\* Number of rows the journal_entries table grows to.
MaxEntries == 3

\* The last day of a run.
MaxDay == 10

\* Number of mood entries in a window (at most).
MaxMoods == 3

\* Number of themes of a weekly plan and of recent activities (at most).
MaxThemes == 2
MaxActivities == 2

-----------------------------------------------------------------------------
(* The journal_entries table *)

\* No agent call is being made.
AgentIdle == arg = None /\ out = None

\* create_tables on an empty database: no journal entry, no response yet.
TableInit ==
    /\ journal_entries = <<>>
    /\ now = 1
    /\ jout = None

-----------------------------------------------------------------------------
(* Text *)

\* str.lower() on one character.
LowerChar(c) ==
    CASE c = "A" -> "a" [] c = "B" -> "b" [] c = "C" -> "c" [] c = "D" -> "d" [] c = "E" -> "e"
      [] c = "F" -> "f" [] c = "G" -> "g" [] c = "H" -> "h" [] c = "I" -> "i" [] c = "J" -> "j"
      [] c = "K" -> "k" [] c = "L" -> "l" [] c = "M" -> "m" [] c = "N" -> "n" [] c = "O" -> "o"
      [] c = "P" -> "p" [] c = "Q" -> "q" [] c = "R" -> "r" [] c = "S" -> "s" [] c = "T" -> "t"
      [] c = "U" -> "u" [] c = "V" -> "v" [] c = "W" -> "w" [] c = "X" -> "x" [] c = "Y" -> "y"
      [] c = "Z" -> "z"
      [] OTHER -> c

RECURSIVE Lower(_)
\* str.lower()
Lower(s) ==
    IF Len(s) = 0 THEN ""
    ELSE LowerChar(SubSeq(s, 1, 1)) \o Lower(SubSeq(s, 2, Len(s)))

\* Python's  `w in s`  for strings: w occurs in s as a substring.
Contains(w, s) ==
    \E i \in 1..(Len(s) - Len(w) + 1) : SubSeq(s, i, i + Len(w) - 1) = w

\* any(word in s for word in list)
AnyIn(list, s) == \E i \in 1..Len(list) : Contains(list[i], s)

\* sum(1 for word in list if word in s)
CountIn(list, s) == Cardinality({i \in 1..Len(list) : Contains(list[i], s)})

-----------------------------------------------------------------------------
(* JournalAgent._fallback_analysis *)

positive_words == <<"happy", "joy", "excited", "grateful", "peaceful", "content">>
negative_words == <<"sad", "angry", "frustrated", "anxious", "depressed", "worried">>

work_words         == <<"work", "job", "career", "office">>
relationship_words == <<"relationship", "friend", "family", "partner">>
health_words       == <<"health", "exercise", "diet", "sleep">>
stress_words       == <<"stress", "anxiety", "worry", "fear">>

\* fallback_mood with the scores of the two majority branches exchanged.
fallback_mood_exchanged(content_lower) ==
    LET positive_count == CountIn(positive_words, content_lower)
        negative_count == CountIn(negative_words, content_lower)
    IN  IF positive_count > negative_count THEN <<3, "positive">>
        ELSE IF negative_count > positive_count THEN <<7, "negative">>
        ELSE <<5, "neutral">>

\* The mood branch of _fallback_analysis: <<mood_score, mood_label>>.
fallback_mood(content_lower) ==
    LET positive_count == CountIn(positive_words, content_lower)
        negative_count == CountIn(negative_words, content_lower)
    IN  IF positive_count > negative_count THEN <<7, "positive">>
        ELSE IF negative_count > positive_count THEN <<3, "negative">>
        ELSE <<5, "neutral">>

\* fallback_themes with "anxious" taken for a stress keyword.
fallback_themes_anxious(content_lower) ==
       (IF AnyIn(work_words, content_lower) THEN <<"work">> ELSE <<>>)
    \o (IF AnyIn(relationship_words, content_lower) THEN <<"relationships">> ELSE <<>>)
    \o (IF AnyIn(health_words, content_lower) THEN <<"health">> ELSE <<>>)
    \o (IF AnyIn(stress_words \o <<"anxious">>, content_lower) THEN <<"stress">> ELSE <<>>)

\* The theme branch of _fallback_analysis: four independent ifs, in this order.
fallback_themes(content_lower) ==
       (IF AnyIn(work_words, content_lower) THEN <<"work">> ELSE <<>>)
    \o (IF AnyIn(relationship_words, content_lower) THEN <<"relationships">> ELSE <<>>)
    \o (IF AnyIn(health_words, content_lower) THEN <<"health">> ELSE <<>>)
    \o (IF AnyIn(stress_words, content_lower) THEN <<"stress">> ELSE <<>>)

fallback_analysis(c) ==
    LET content_lower == Lower(c)
        mood == fallback_mood(content_lower)
    IN  [ mood_score         |-> mood[1],
          mood_label         |-> mood[2],
          themes             |-> fallback_themes(content_lower),
          emotional_triggers |-> <<>>,
          stress_level       |-> 5,
          key_insights       |-> <<"Analysis completed with fallback method">>,
          growth_areas       |-> <<>>,
          positive_patterns  |-> <<>>,
          suggested_focus    |-> "Continue journaling to build patterns" ]

-----------------------------------------------------------------------------
(* The model's replies *)

\* A parsed JSON object is a function from the keys it holds to their values;
\* dict.get(key, default):
Get(d, key, default) == IF key \in DOMAIN d THEN d[key] ELSE default

\* The empty JSON object {}.
EmptyObject == [k \in {} |-> 0]

\* One stage of the chain: arun raised (call_error); it returned text that
\* json.loads rejects (bad_json); it returned JSON that is no object, such as
\* a list (not_object); it returned a JSON object.
CallError == [kind |-> "call_error"]
BadJson   == [kind |-> "bad_json"]
NotObject == [kind |-> "not_object"]
Object(d) == [kind |-> "object", obj |-> d]

\* JSON objects the model may answer the mood prompt with: in range, above
\* and below the 0..10 scale, with an empty label, and without the two keys.
MoodObjects ==
    { [mood_score |-> 8,  mood_label |-> "hopeful"],
      [mood_score |-> 11, mood_label |-> "elated"],
      [mood_score |-> -1, mood_label |-> "low"],
      [mood_score |-> 6,  mood_label |-> ""],
      [confidence |-> 1] }

ThemeObjects == { [themes |-> <<"growth", "work">>], EmptyObject }

TriggerObjects == { [emotional_triggers |-> <<"deadline">>, stress_level |-> 7] }

InsightObjects ==
    { [key_insights |-> <<"rest helps">>, growth_areas |-> <<"patience">>,
       positive_patterns |-> <<"walks">>, suggested_focus |-> "rest"] }

Failures == {CallError, BadJson, NotObject}

StageReplies(objects) == Failures \cup {Object(d) : d \in objects}

\* The replies to the four prompts of one analyze_journal_entry call.
ChainReplies ==
    [ mood    : StageReplies(MoodObjects),
      theme   : StageReplies(ThemeObjects),
      trigger : StageReplies(TriggerObjects),
      insight : StageReplies(InsightObjects) ]

-----------------------------------------------------------------------------
(* JournalAgent.analyze_journal_entry *)

\* The dict returned at the end of the model path (lines 137-147).
model_analysis(mood_analysis, theme_analysis, trigger_analysis, insights_analysis) ==
    [ mood_score         |-> Get(mood_analysis, "mood_score", 5),
      mood_label         |-> Get(mood_analysis, "mood_label", "neutral"),
      themes             |-> Get(theme_analysis, "themes", <<>>),
      emotional_triggers |-> Get(trigger_analysis, "emotional_triggers", <<>>),
      stress_level       |-> Get(trigger_analysis, "stress_level", 5),
      key_insights       |-> Get(insights_analysis, "key_insights", <<>>),
      growth_areas       |-> Get(insights_analysis, "growth_areas", <<>>),
      positive_patterns  |-> Get(insights_analysis, "positive_patterns", <<>>),
      suggested_focus    |-> Get(insights_analysis, "suggested_focus", "") ]

\* Whether the try block raises, in the order the code runs: the three arun
\* calls, the three json.loads, the insights arun and its json.loads, then
\* the .get calls, which raise on a value that is no dict.
chain_raises(r) ==
    \/ r.mood.kind = "call_error"
    \/ r.theme.kind = "call_error"
    \/ r.trigger.kind = "call_error"
    \/ r.mood.kind = "bad_json"
    \/ r.theme.kind = "bad_json"
    \/ r.trigger.kind = "bad_json"
    \/ r.insight.kind = "call_error"
    \/ r.insight.kind = "bad_json"
    \/ r.mood.kind = "not_object"
    \/ r.theme.kind = "not_object"
    \/ r.trigger.kind = "not_object"
    \/ r.insight.kind = "not_object"

\* analyze_journal_entry with one try block per stage: a stage that fails
\* gives the fallback's fields, the others keep the model's.
analyze_per_stage(c, llm, r) ==
    LET fb == fallback_analysis(c)
        ok(x) == x.kind = "object"
    IN  IF ~llm THEN fb
        ELSE [ mood_score         |-> IF ok(r.mood) THEN Get(r.mood.obj, "mood_score", 5) ELSE fb.mood_score,
               mood_label         |-> IF ok(r.mood) THEN Get(r.mood.obj, "mood_label", "neutral") ELSE fb.mood_label,
               themes             |-> IF ok(r.theme) THEN Get(r.theme.obj, "themes", <<>>) ELSE fb.themes,
               emotional_triggers |-> IF ok(r.trigger) THEN Get(r.trigger.obj, "emotional_triggers", <<>>) ELSE fb.emotional_triggers,
               stress_level       |-> IF ok(r.trigger) THEN Get(r.trigger.obj, "stress_level", 5) ELSE fb.stress_level,
               key_insights       |-> IF ok(r.insight) THEN Get(r.insight.obj, "key_insights", <<>>) ELSE fb.key_insights,
               growth_areas       |-> IF ok(r.insight) THEN Get(r.insight.obj, "growth_areas", <<>>) ELSE fb.growth_areas,
               positive_patterns  |-> IF ok(r.insight) THEN Get(r.insight.obj, "positive_patterns", <<>>) ELSE fb.positive_patterns,
               suggested_focus    |-> IF ok(r.insight) THEN Get(r.insight.obj, "suggested_focus", "") ELSE fb.suggested_focus ]

analyze_journal_entry(c, llm, r) ==
    IF llm
    THEN IF chain_raises(r)
         THEN fallback_analysis(c)                       \* except Exception
         ELSE model_analysis(r.mood.obj, r.theme.obj, r.trigger.obj, r.insight.obj)
    ELSE fallback_analysis(c)

-----------------------------------------------------------------------------
(* ConversationAgent *)

SessionIds == {"s1", "s2"}
Users == {1, 2}
\* The user whose requests the conversation runs follow.
Caller == 1
\* The text of a message sent in a conversation run.
Messages == {"I am sad"}
Reqs == 1..MaxReqs

\* The text of the model's reply to a message, and of its closing summary.
ModelReply == "Tell me more."
ModelSummary == "A short summary."

\* _fallback_response with the work keywords looked at first.
fallback_response_work_first(user_message) ==
    LET user_lower == Lower(user_message)
    IN  IF AnyIn(<<"work", "job", "career">>, user_lower)
        THEN "Work can be a significant part of our lives. How are things going for you professionally?"
        ELSE IF AnyIn(<<"sad", "depressed", "down", "unhappy">>, user_lower)
        THEN "I hear that you're feeling down. What's been on your mind lately?"
        ELSE IF AnyIn(<<"happy", "excited", "good", "great">>, user_lower)
        THEN "That's wonderful! What's contributing to your positive mood?"
        ELSE IF AnyIn(<<"stress", "anxious", "worried", "nervous">>, user_lower)
        THEN "Stress can be really challenging. Can you tell me more about what's causing you concern?"
        ELSE IF AnyIn(<<"relationship", "friend", "family">>, user_lower)
        THEN "Relationships are so important. What's happening in your relationships right now?"
        ELSE "I'm here to listen and support you. What would you like to talk about today?"

\* _fallback_response: the canned reply, the first matching keyword set wins.
fallback_response(user_message) ==
    LET user_lower == Lower(user_message)
    IN  IF AnyIn(<<"sad", "depressed", "down", "unhappy">>, user_lower)
        THEN "I hear that you're feeling down. What's been on your mind lately?"
        ELSE IF AnyIn(<<"happy", "excited", "good", "great">>, user_lower)
        THEN "That's wonderful! What's contributing to your positive mood?"
        ELSE IF AnyIn(<<"stress", "anxious", "worried", "nervous">>, user_lower)
        THEN "Stress can be really challenging. Can you tell me more about what's causing you concern?"
        ELSE IF AnyIn(<<"work", "job", "career">>, user_lower)
        THEN "Work can be a significant part of our lives. How are things going for you professionally?"
        ELSE IF AnyIn(<<"relationship", "friend", "family">>, user_lower)
        THEN "Relationships are so important. What's happening in your relationships right now?"
        ELSE "I'm here to listen and support you. What would you like to talk about today?"

\* A worker that serves no request.
IdleReq ==
    [ pc |-> "idle", op |-> "none", user |-> 0, sid |-> "", msg |-> "",
      theme |-> "", memory |-> 0, status |-> 0, response |-> "", fallback |-> FALSE,
      failed |-> FALSE ]

\* A ConversationBufferMemory object: its identity and its messages.
NewMemory(id) == [id |-> id, messages |-> <<>>]

\* The identity of a newly constructed object: one no live reference has.
FreshId ==
    LET used == {conversation_memories[s].id :
                    s \in {x \in SessionIds : conversation_memories[x] # None}}
                \cup {reqs[r].memory : r \in Reqs}
    IN  CHOOSE n \in 1..(Cardinality(SessionIds) + MaxReqs + 1) : n \notin used

\* save_context on one memory object that all sessions share: the turns are
\* appended to every transcript there is.
save_context_shared(mems, sid, id, input, output) ==
    [s \in SessionIds |->
        IF mems[s] # None
        THEN [mems[s] EXCEPT !.messages =
                @ \o <<[role |-> "human", text |-> input], [role |-> "ai", text |-> output]>>]
        ELSE mems[s]]

\* save_context that puts the object back under its session when the map
\* has lost it.
save_context_restoring(mems, sid, id, input, output) ==
    LET turns == <<[role |-> "human", text |-> input], [role |-> "ai", text |-> output]>>
    IN  IF mems[sid] # None /\ mems[sid].id = id
        THEN [mems EXCEPT ![sid].messages = @ \o turns]
        ELSE [mems EXCEPT ![sid] = [id |-> id, messages |-> turns]]

\* save_context that writes the two turns over what the transcript holds.
save_context_overwriting(mems, sid, id, input, output) ==
    IF mems[sid] # None /\ mems[sid].id = id
    THEN [mems EXCEPT ![sid].messages =
            <<[role |-> "human", text |-> input], [role |-> "ai", text |-> output]>>]
    ELSE mems

\* memory.save_context(input, output) on the object `id` that the request
\* for session sid holds: the two turns are appended to it.  An object that
\* is no longer in the map is referenced by nothing that reads it later.
save_context(mems, sid, id, input, output) ==
    IF mems[sid] # None /\ mems[sid].id = id
    THEN [mems EXCEPT ![sid].messages =
            @ \o <<[role |-> "human", text |-> input], [role |-> "ai", text |-> output]>>]
    ELSE mems

\* db.add(ConversationModel(...)); db.commit() of send_message.
SaveRow(u, sid, msg, response, theme) ==
    conversations' = Append(conversations,
        [user_id |-> u, session_id |-> sid, message |-> msg, response |-> response,
         theme |-> theme])

\* Messages being served: each will insert one row.
InFlightMessages == {r \in Reqs : reqs[r].op = "message" /\ reqs[r].pc = "await"}

\* POST /conversation/start: start_conversation draws a uuid4 as session id
\* and returns it with the opening line; the agent keeps nothing.
StartConversation(r, u) ==
    /\ reqs[r].pc = "idle"
    /\ reqs' = [reqs EXCEPT ![r] =
            [IdleReq EXCEPT !.pc = "done", !.op = "start", !.user = u,
                            !.status = 200, !.response = "opening"]]
    /\ UNCHANGED <<use_llm, agentVars, journalVars, tableVars, conversation_memories, conversations>>

\* send_message that keeps a transcript also when there is no model: the
\* answer of _fallback_response is saved as a turn.
SendMessage_remembering(r, u, sid, msg, theme) ==
    /\ reqs[r].pc = "idle"
    /\ Len(conversations) + Cardinality(InFlightMessages) < MaxRows
    /\ LET created == conversation_memories[sid] = None
           memory == IF created THEN NewMemory(FreshId) ELSE conversation_memories[sid]
           mems   == [conversation_memories EXCEPT ![sid] = memory]
       IN  IF use_llm
           THEN /\ conversation_memories' = mems
                /\ reqs' = [reqs EXCEPT ![r] =
                        [IdleReq EXCEPT !.pc = "await", !.op = "message", !.user = u,
                                        !.sid = sid, !.msg = msg, !.theme = theme,
                                        !.memory = memory.id]]
                /\ UNCHANGED conversations
           ELSE /\ reqs' = [reqs EXCEPT ![r] =
                        [IdleReq EXCEPT !.pc = "done", !.op = "message", !.user = u,
                                        !.sid = sid, !.msg = msg, !.theme = theme,
                                        !.status = 200,
                                        !.response = fallback_response(msg),
                                        !.fallback = TRUE]]
                /\ SaveRow(u, sid, msg, fallback_response(msg), theme)
                /\ conversation_memories' =
                        save_context(mems, sid, memory.id, msg, fallback_response(msg))
    /\ UNCHANGED <<use_llm, agentVars, journalVars, tableVars>>

\* POST /conversation/message up to the await of the model call: with a model,
\* generate_response fetches or creates the session's memory and issues the
\* call; without one it answers from _fallback_response and the handler
\* inserts the row and returns.  The theme of the request goes to the prompt
\* and to the row; "" is the theme left out.
SendMessage(r, u, sid, msg, theme) ==
    /\ reqs[r].pc = "idle"
    /\ Len(conversations) + Cardinality(InFlightMessages) < MaxRows
    /\ IF use_llm
       THEN LET created == conversation_memories[sid] = None
                memory == IF created THEN NewMemory(FreshId)
                          ELSE conversation_memories[sid]
            IN  /\ conversation_memories' = [conversation_memories EXCEPT ![sid] = memory]
                /\ reqs' = [reqs EXCEPT ![r] =
                        [IdleReq EXCEPT !.pc = "await", !.op = "message", !.user = u,
                                        !.sid = sid, !.msg = msg, !.theme = theme,
                                        !.memory = memory.id]]
                /\ UNCHANGED conversations
       ELSE /\ reqs' = [reqs EXCEPT ![r] =
                    [IdleReq EXCEPT !.pc = "done", !.op = "message", !.user = u,
                                    !.sid = sid, !.msg = msg, !.theme = theme,
                                    !.status = 200,
                                    !.response = fallback_response(msg),
                                    !.fallback = TRUE]]
            /\ SaveRow(u, sid, msg, fallback_response(msg), theme)
            /\ UNCHANGED conversation_memories
    /\ UNCHANGED <<use_llm, agentVars, journalVars, tableVars>>

\* A message request that names no theme.
MessageBegin(r, u, sid, msg) == SendMessage(r, u, sid, msg, "")

\* The model call of a message returns: the turns are saved to the memory
\* the request holds, the row is inserted, the reply returned.
MessageReply(r) ==
    /\ reqs[r].pc = "await" /\ reqs[r].op = "message"
    /\ conversation_memories' =
            save_context(conversation_memories, reqs[r].sid, reqs[r].memory,
                         reqs[r].msg, ModelReply)
    /\ SaveRow(reqs[r].user, reqs[r].sid, reqs[r].msg, ModelReply, reqs[r].theme)
    /\ reqs' = [reqs EXCEPT ![r].pc = "done", ![r].status = 200,
                            ![r].response = ModelReply]
    /\ UNCHANGED <<use_llm, agentVars, journalVars, tableVars>>

\* The except branch saving the canned reply as a turn of the transcript.
MessageFail_saving(r) ==
    /\ reqs[r].pc = "await" /\ reqs[r].op = "message"
    /\ conversation_memories' =
            save_context(conversation_memories, reqs[r].sid, reqs[r].memory,
                         reqs[r].msg, fallback_response(reqs[r].msg))
    /\ SaveRow(reqs[r].user, reqs[r].sid, reqs[r].msg, fallback_response(reqs[r].msg),
               reqs[r].theme)
    /\ reqs' = [reqs EXCEPT ![r].pc = "done", ![r].status = 200,
                            ![r].response = fallback_response(reqs[r].msg),
                            ![r].fallback = TRUE, ![r].failed = TRUE]
    /\ UNCHANGED <<use_llm, agentVars, journalVars, tableVars>>

\* The model call of a message raises: the except branch answers from
\* _fallback_response, the handler inserts the row with that reply.
MessageFail(r) ==
    /\ reqs[r].pc = "await" /\ reqs[r].op = "message"
    /\ SaveRow(reqs[r].user, reqs[r].sid, reqs[r].msg, fallback_response(reqs[r].msg),
               reqs[r].theme)
    /\ reqs' = [reqs EXCEPT ![r].pc = "done", ![r].status = 200,
                            ![r].response = fallback_response(reqs[r].msg),
                            ![r].fallback = TRUE, ![r].failed = TRUE]
    /\ UNCHANGED <<use_llm, agentVars, journalVars, tableVars, conversation_memories>>

\* POST /conversation/end up to the await of the summary call: with a memory
\* and a model the summary is asked for; otherwise the entry is deleted if
\* there is one and the plain closing message returned.
EndBegin(r, u, sid) ==
    /\ reqs[r].pc = "idle"
    /\ IF conversation_memories[sid] # None /\ use_llm
       THEN /\ reqs' = [reqs EXCEPT ![r] =
                    [IdleReq EXCEPT !.pc = "await", !.op = "end", !.user = u, !.sid = sid,
                                    !.memory = conversation_memories[sid].id]]
            /\ UNCHANGED conversation_memories
       ELSE /\ conversation_memories' = [conversation_memories EXCEPT ![sid] = None]
            /\ reqs' = [reqs EXCEPT ![r] =
                    [IdleReq EXCEPT !.pc = "done", !.op = "end", !.user = u, !.sid = sid,
                                    !.status = 200, !.response = "closing"]]
    /\ UNCHANGED <<use_llm, agentVars, journalVars, tableVars, conversations>>

\* The summary call returns: del self.conversation_memories[session_id],
\* which raises KeyError when the entry is gone, and the handler answers 500.
EndSummary(r) ==
    /\ reqs[r].pc = "await" /\ reqs[r].op = "end"
    /\ IF conversation_memories[reqs[r].sid] # None
       THEN /\ conversation_memories' = [conversation_memories EXCEPT ![reqs[r].sid] = None]
            /\ reqs' = [reqs EXCEPT ![r].pc = "done", ![r].status = 200,
                                    ![r].response = ModelSummary]
       ELSE /\ reqs' = [reqs EXCEPT ![r].pc = "done", ![r].status = 500]
            /\ UNCHANGED conversation_memories
    /\ UNCHANGED <<use_llm, agentVars, journalVars, tableVars, conversations>>

\* The summary call raises: nothing in end_conversation catches it, the
\* delete is not reached and the handler answers 500.
EndFail(r) ==
    /\ reqs[r].pc = "await" /\ reqs[r].op = "end"
    /\ reqs' = [reqs EXCEPT ![r].pc = "done", ![r].status = 500, ![r].failed = TRUE]
    /\ UNCHANGED <<use_llm, agentVars, journalVars, tableVars, conversation_memories, conversations>>

\* The response has been sent; the worker takes the next request.
Return(r) ==
    /\ reqs[r].pc = "done"
    /\ reqs' = [reqs EXCEPT ![r] = IdleReq]
    /\ UNCHANGED <<use_llm, agentVars, journalVars, tableVars, conversation_memories, conversations>>

\* ConversationAgent.__init__ and an empty table.
ConvInit ==
    /\ conversation_memories = [s \in SessionIds |-> None]
    /\ reqs = [r \in Reqs |-> IdleReq]
    /\ conversations = <<>>

\* No analysis request is part of the conversation runs.
JournalIdle ==
    /\ words = <<>>
    /\ replies = None
    /\ analysis = None
    /\ prevWords = None
    /\ prevAnalysis = None
    /\ added = 0

InitConv == use_llm \in BOOLEAN /\ JournalIdle /\ ConvInit /\ TableInit /\ AgentIdle

NextConv ==
    \E r \in Reqs :
        \/ StartConversation(r, Caller)
        \/ \E sid \in SessionIds, msg \in Messages : MessageBegin(r, Caller, sid, msg)
        \/ MessageReply(r)
        \/ MessageFail(r)
        \/ \E sid \in SessionIds : EndBegin(r, Caller, sid)
        \/ EndSummary(r)
        \/ EndFail(r)
        \/ Return(r)

SpecConv == InitConv /\ [][NextConv]_vars

\* The conversation runs with the steps the server takes on its own: a
\* finished request is returned.  Nothing in the code ends the wait for the
\* model (ChatOpenAI is built without a timeout and the await is not
\* wrapped), so the model's answer is under no fairness condition.
SpecConvLive == SpecConv /\ \A r \in Reqs : WF_vars(Return(r))

\* The texts of the messages of one user who talks in one session, one
\* message at a time.
ReplyTexts ==
    { "hello", "I am sad", "So HAPPY today", "unhappy", "feeling nervous",
      "my job", "my family", "sad about my job", "my job makes me sad",
      "great friend", "stress at work", "career and family", "download" }

NextReplies ==
    \/ \E msg \in ReplyTexts : MessageBegin(1, Caller, "s1", msg)
    \/ MessageReply(1)
    \/ MessageFail(1)
    \/ Return(1)

SpecReplies == InitConv /\ [][NextReplies]_vars

-----------------------------------------------------------------------------
(* Lists, frequency tables and JSON text *)

RECURSIVE Sum(_)
\* sum(xs)
Sum(xs) == IF Len(xs) = 0 THEN 0 ELSE Head(xs) + Sum(Tail(xs))

RECURSIVE Flatten(_)
\* the extend loop: the lists of a list of lists, one after the other
Flatten(lists) == IF Len(lists) = 0 THEN <<>> ELSE Head(lists) \o Flatten(Tail(lists))

\* The slice left out: the whole list.
Take_all(xs, n) == xs

\* xs[:n]
Take(xs, n) == SubSeq(xs, 1, IF Len(xs) < n THEN Len(xs) ELSE n)

\* xs[-n:]
Last(xs, n) == SubSeq(xs, IF Len(xs) < n THEN 1 ELSE Len(xs) - n + 1, Len(xs))

RECURSIVE Reverse(_)
Reverse(xs) == IF Len(xs) = 0 THEN <<>> ELSE Reverse(Tail(xs)) \o <<Head(xs)>>

RECURSIVE count_items(_, _)
\* counts[x] = counts.get(x, 0) + 1 for x in items: the dict's items(), in
\* the order of insertion, as pairs <<item, count>>; `counts` is the dict so far.
count_items(items, counts) ==
    IF Len(items) = 0 THEN counts
    ELSE LET x == Head(items)
             at == {i \in 1..Len(counts) : counts[i][1] = x}
         IN  IF at = {}
             THEN count_items(Tail(items), Append(counts, <<x, 1>>))
             ELSE LET i == CHOOSE j \in at : TRUE
                  IN  count_items(Tail(items), [counts EXCEPT ![i] = <<x, @[2] + 1>>])

\* pair put into a list that is sorted by count, descending: behind every
\* pair whose count is not lower.
insert_desc(sorted, pair) ==
    LET k == Cardinality({i \in 1..Len(sorted) : sorted[i][2] >= pair[2]})
    IN  SubSeq(sorted, 1, k) \o <<pair>> \o SubSeq(sorted, k + 1, Len(sorted))

RECURSIVE sort_into(_, _)
sort_into(sorted, pairs) ==
    IF Len(pairs) = 0 THEN sorted
    ELSE sort_into(insert_desc(sorted, Head(pairs)), Tail(pairs))

\* The same by an ascending stable sort that is reversed afterwards: pairs of
\* equal count come out in the opposite order.
sorted_by_count_flipped(pairs) ==
    LET neg == [i \in 1..Len(pairs) |-> <<pairs[i][1], 0 - pairs[i][2]>>]
        asc == sort_into(<<>>, neg)
    IN  Reverse([i \in 1..Len(asc) |-> <<asc[i][1], 0 - asc[i][2]>>])

\* sorted(counts.items(), key=lambda x: x[1], reverse=True): Python's sort is
\* stable, and with reverse=True equal keys keep their order too.
sorted_by_count(pairs) == sort_into(<<>>, pairs)

\* max(counts.items(), key=lambda x: x[1])[0] if counts else None: the
\* first pair of the highest count.
most_common(pairs) ==
    IF Len(pairs) = 0 THEN "None"
    ELSE LET best == CHOOSE i \in 1..Len(pairs) :
                        /\ \A j \in 1..Len(pairs) : pairs[j][2] <= pairs[i][2]
                        /\ \A j \in 1..(i - 1) : pairs[j][2] < pairs[i][2]
         IN  pairs[best][1]

RECURSIVE JoinQuoted(_)
JoinQuoted(items) ==
    IF Len(items) = 0 THEN ""
    ELSE IF Len(items) = 1 THEN "\"" \o items[1] \o "\""
    ELSE "\"" \o items[1] \o "\", " \o JoinQuoted(Tail(items))

\* json.dumps of a list of strings (none of which needs an escape).
json_dumps(items) == "[" \o JoinQuoted(items) \o "]"

RECURSIVE parse_items(_, _, _, _)
\* The strings of a JSON array of strings, read character by character:
\* `open` says whether position i is inside a string, `cur` holds its text.
parse_items(text, i, open, cur) ==
    IF i > Len(text) THEN <<>>
    ELSE LET ch == SubSeq(text, i, i)
         IN  IF open
             THEN IF ch = "\"" THEN <<cur>> \o parse_items(text, i + 1, FALSE, "")
                  ELSE parse_items(text, i + 1, TRUE, cur \o ch)
             ELSE parse_items(text, i + 1, ch = "\"", "")

\* json.loads of such a text.
json_loads(text) == parse_items(text, 1, FALSE, "")

-----------------------------------------------------------------------------
(* Request contents *)

RECURSIVE Join(_)
\* " ".join(ws): the content a list of words stands for.
Join(ws) ==
    IF Len(ws) = 0 THEN ""
    ELSE IF Len(ws) = 1 THEN ws[1]
    ELSE ws[1] \o " " \o Join(Tail(ws))

\* Words the bounded contents are made of: positive ones (one capitalised),
\* negative ones, a theme keyword and two that hold a list word inside.
Vocabulary == {"Happy", "joy", "sad", "anxious", "job", "unhappy", "stressed"}

Sentence ==
    <<"I", "feel", "anxious", "about", "my", "job", "and", "my", "family", "relationship">>

BoundedSeq(S, n) == UNION {[1..k -> S] : k \in 0..n}

Texts == BoundedSeq(Vocabulary, MaxWords) \cup {Sentence}

\* ws with word w put in as its i-th word.
InsertAt(ws, i, w) == SubSeq(ws, 1, i - 1) \o <<w>> \o SubSeq(ws, i, Len(ws))

-----------------------------------------------------------------------------
(* POST /journal/analyze-text *)

\* The replies a call may meet: none is asked for without a model.
RepliesFor(llm) == IF llm THEN ChainReplies ELSE {None}

\* analyze_text(content), for the request's content and the replies the model
\* gives to it: analyses and stores nothing.
AnalyzeText ==
    /\ analysis' = analyze_journal_entry(Join(words), use_llm, replies)
    /\ UNCHANGED <<use_llm, agentVars, words, replies, prevWords, prevAnalysis, added, convVars, tableVars>>

\* analyze_text again, on the latest text with the word w added as its i-th word.
AnalyzeLonger(w, i, r) ==
    /\ analysis # None
    /\ added < MaxAdded
    /\ words' = InsertAt(words, i, w)
    /\ replies' = r
    /\ analysis' = analyze_journal_entry(Join(words'), use_llm, r)
    /\ prevWords' = words
    /\ prevAnalysis' = analysis
    /\ added' = added + 1
    /\ UNCHANGED <<use_llm, agentVars, convVars, tableVars>>

\* The request that arrives: its content and the model's replies to it.
JournalInit ==
    /\ words \in Texts
    /\ replies \in RepliesFor(use_llm)
    /\ analysis = None
    /\ prevWords = None
    /\ prevAnalysis = None
    /\ added = 0

\* Single analysis requests, with and without a model.
InitAnalyze == use_llm \in BOOLEAN /\ JournalInit /\ ConvInit /\ TableInit /\ AgentIdle

NextAnalyze == AnalyzeText

SpecAnalyze == InitAnalyze /\ [][NextAnalyze]_vars

\* The agent constructed without an API key: every analysis is the fallback.
InitFallback == use_llm = FALSE /\ JournalInit /\ ConvInit /\ TableInit /\ AgentIdle

NextFallback ==
    \/ AnalyzeText
    \/ \E w \in Vocabulary, i \in 1..(Len(words) + 1) : AnalyzeLonger(w, i, None)

SpecFallback == InitFallback /\ [][NextFallback]_vars

-----------------------------------------------------------------------------
(* JournalAgent.generate_weekly_summary *)

\* timedelta(days=7)
WeekDays == 7

\* The mean of the first and the last score only.
average_of_ends(mood_scores) ==
    [num |-> mood_scores[1] + mood_scores[Len(mood_scores)], den |-> 2]

\* sum(mood_scores) / len(mood_scores), as the fraction num/den.
average(mood_scores) == [num |-> Sum(mood_scores), den |-> Len(mood_scores)]

Min(xs) == CHOOSE x \in {xs[i] : i \in 1..Len(xs)} : \A i \in 1..Len(xs) : x <= xs[i]
Max(xs) == CHOOSE x \in {xs[i] : i \in 1..Len(xs)} : \A i \in 1..Len(xs) : x >= xs[i]

\* entries: the list of dicts the caller built, in the caller's order.
generate_weekly_summary(entries) ==
    IF Len(entries) = 0 THEN [message |-> "No entries to summarize"]
    ELSE
    LET mood_scores  == [i \in 1..Len(entries) |-> Get(entries[i], "mood_score", 5)]
        all_themes   == Flatten([i \in 1..Len(entries) |-> Get(entries[i], "themes", <<>>)])
        all_triggers == Flatten([i \in 1..Len(entries) |-> Get(entries[i], "emotional_triggers", <<>>)])
        avg_mood     == average(mood_scores)
        first        == mood_scores[1]
        last         == mood_scores[Len(mood_scores)]
        mood_trend   == IF last > first THEN "improving"
                        ELSE IF last < first THEN "declining" ELSE "stable"
        theme_counts   == count_items(all_themes, <<>>)
        trigger_counts == count_items(all_triggers, <<>>)
    IN  [ average_mood         |-> avg_mood,
          mood_trend           |-> mood_trend,
          total_entries        |-> Len(entries),
          most_common_themes   |-> Take(sorted_by_count(theme_counts), 5),
          most_common_triggers |-> Take(sorted_by_count(trigger_counts), 5),
          mood_range           |-> [min |-> Min(mood_scores), max |-> Max(mood_scores)],
          insights             |-> <<avg_mood, mood_trend, most_common(theme_counts)>> ]

-----------------------------------------------------------------------------
(* The /journal handlers *)

\* What a client sends with POST /journal/ and what the model answers to it.
\* A theme or trigger is a string without a quote or a backslash.
Contents == {"sad", "Happy at work"}

WideThemes  == <<"work", "growth", "sleep", "money", "home", "travel">>
OtherThemes == <<"music", "food", "sport", "study", "pets", "art">>

EntryReplies ==
    { [ mood    |-> CallError,
        theme   |-> Object([themes |-> <<"growth">>]),
        trigger |-> Object([emotional_triggers |-> <<"deadline">>, stress_level |-> 7]),
        insight |-> Object([growth_areas |-> <<"patience">>]) ],
      [ mood    |-> Object([mood_score |-> 6, mood_label |-> "negative"]),
        theme   |-> Object([themes |-> WideThemes]),
        trigger |-> Object([emotional_triggers |-> <<"noise", "deadline">>]),
        insight |-> Object([growth_areas |-> <<"focus", "patience">>]) ],
      [ mood    |-> Object([mood_score |-> 8, mood_label |-> "calm"]),
        theme   |-> Object([themes |-> OtherThemes]),
        trigger |-> Object([emotional_triggers |-> <<"a", "b", "c", "d", "e", "f">>]),
        insight |-> Object(EmptyObject) ] }

Submissions(llm) ==
    IF llm
    THEN {[content |-> "sad", replies |-> r] : r \in EntryReplies}
    ELSE {[content |-> c, replies |-> None] : c \in Contents}

\* The next value of the autoincrement primary key.
NextId(rows) == 1 + Max(<<0>> \o [i \in 1..Len(rows) |-> rows[i].id])

\* create_journal_entry: the row that is stored.  `analysis` is not a
\* column: it keeps the dict the row was made from.
CreateJournalEntry(u, sub) ==
    /\ Len(journal_entries) < MaxEntries
    /\ now < MaxDay
    /\ LET result == analyze_journal_entry(sub.content, use_llm, sub.replies)
           db_entry ==
               [ id                 |-> NextId(journal_entries),
                 user_id            |-> u,
                 content            |-> sub.content,
                 mood_score         |-> Get(result, "mood_score", 5),
                 mood_label         |-> Get(result, "mood_label", "neutral"),
                 themes             |-> json_dumps(Get(result, "themes", <<>>)),
                 emotional_triggers |-> json_dumps(Get(result, "emotional_triggers", <<>>)),
                 created_at         |-> now,
                 analysis           |-> result ]
       IN  /\ journal_entries' = Append(journal_entries, db_entry)
           /\ jout' = [op |-> "create", user |-> u, body |-> db_entry]
    /\ now' = now + 1
    /\ UNCHANGED <<use_llm, agentVars, journalVars, convVars>>

\* A week passes without a request.
Wait ==
    /\ now + WeekDays <= MaxDay
    /\ now' = now + WeekDays
    /\ jout' = None
    /\ UNCHANGED <<use_llm, agentVars, journalVars, convVars, journal_entries>>

\* The positions of the rows that satisfy `keep`, ordered by created_at
\* descending (created_at differs from row to row).
RECURSIVE by_created_at_desc(_)
by_created_at_desc(at) ==
    IF at = {} THEN <<>>
    ELSE LET i == CHOOSE j \in at :
                     \A k \in at : journal_entries[k].created_at <= journal_entries[j].created_at
         IN  <<journal_entries[i]>> \o by_created_at_desc(at \ {i})

query_user_entries(u, since) ==
    by_created_at_desc({i \in 1..Len(journal_entries) :
                            /\ journal_entries[i].user_id = u
                            /\ journal_entries[i].created_at >= since})

\* get_weekly_summary
GetWeeklySummary(u) ==
    /\ LET week_ago == now - WeekDays
           entries  == query_user_entries(u, week_ago)
           entries_data ==
               [ i \in 1..Len(entries) |->
                   [ mood_score         |-> entries[i].mood_score,
                     mood_label         |-> entries[i].mood_label,
                     themes             |-> IF entries[i].themes # ""
                                            THEN json_loads(entries[i].themes) ELSE <<>>,
                     emotional_triggers |-> IF entries[i].emotional_triggers # ""
                                            THEN json_loads(entries[i].emotional_triggers) ELSE <<>>,
                     created_at         |-> entries[i].created_at ] ]
           summary == generate_weekly_summary(entries_data)
       IN  jout' = [ op |-> "weekly_summary", user |-> u,
                     body |-> [ summary       |-> summary,
                                total_entries |-> Len(entries),
                                period        |-> "last_7_days" ] ]
    /\ UNCHANGED <<use_llm, agentVars, journalVars, convVars, journal_entries, now>>

\* get_recurring_themes
GetRecurringThemes(u) ==
    /\ LET entries == query_user_entries(u, 0)
           all_themes ==
               Flatten([ i \in 1..Len(entries) |->
                           IF entries[i].themes # ""
                           THEN json_loads(entries[i].themes) ELSE <<>> ])
           theme_counts  == count_items(all_themes, <<>>)
           sorted_themes == sorted_by_count(theme_counts)
       IN  jout' = [ op |-> "themes", user |-> u,
                     body |-> [ recurring_themes |-> Take(sorted_themes, 10),
                                total_entries    |-> Len(entries),
                                unique_themes    |-> Len(theme_counts) ] ]
    /\ UNCHANGED <<use_llm, agentVars, journalVars, convVars, journal_entries, now>>

-----------------------------------------------------------------------------
(* The agents' functions over a user's history *)

\* InsightsAgent._fallback_pattern_analysis (journal_data: its journal_entries)
fallback_pattern_analysis(journal_data) ==
    IF Len(journal_data) = 0 THEN [message |-> "No journal data available"]
    ELSE
    LET themes == Flatten([i \in 1..Len(journal_data) |->
                              Get(journal_data[i], "themes", <<>>)])
        theme_counts == count_items(themes, <<>>)
    IN  [ recurring_themes     |-> Take(sorted_by_count(theme_counts), 5),
          emotional_triggers   |-> <<>>,
          total_entries        |-> Len(journal_data),
          insights             |-> <<"Basic pattern analysis completed">>,
          positive_patterns    |-> <<>>,
          challenging_patterns |-> <<>> ]

\* InsightsAgent.detect_patterns; `reply` is the model's answer to the
\* pattern prompt.
detect_patterns(journal_data, llm, reply) ==
    IF Len(journal_data) = 0
    THEN [message |-> "No journal data available for pattern analysis"]
    ELSE
    LET all_themes   == Flatten([i \in 1..Len(journal_data) |->
                                    Get(journal_data[i], "themes", <<>>)])
        all_triggers == Flatten([i \in 1..Len(journal_data) |->
                                    Get(journal_data[i], "emotional_triggers", <<>>)])
        theme_counts   == count_items(all_themes, <<>>)
        trigger_counts == count_items(all_triggers, <<>>)
    IN  IF llm
        THEN IF reply.kind # "object"
             THEN fallback_pattern_analysis(journal_data)     \* except Exception
             ELSE [ recurring_themes     |-> Take(sorted_by_count(theme_counts), 5),
                    emotional_triggers   |-> Take(sorted_by_count(trigger_counts), 5),
                    most_common_theme    |-> most_common(theme_counts),
                    most_common_trigger  |-> most_common(trigger_counts),
                    total_entries        |-> Len(journal_data),
                    insights             |-> Get(reply.obj, "insights", <<>>),
                    positive_patterns    |-> Get(reply.obj, "positive_patterns", <<>>),
                    challenging_patterns |-> Get(reply.obj, "challenging_patterns", <<>>) ]
        ELSE fallback_pattern_analysis(journal_data)

\* PlannerAgent._analyze_patterns
analyze_patterns(journal_data, mood_data, conversation_history) ==
    LET recent_entries == IF Len(journal_data) > 10 THEN Last(journal_data, 10)
                          ELSE journal_data
        recent_moods   == IF Len(mood_data) > 7 THEN Last(mood_data, 7) ELSE mood_data
        all_themes     == Flatten([i \in 1..Len(recent_entries) |->
                                      Get(recent_entries[i], "themes", <<>>)])
        mood_trends    == [i \in 1..Len(recent_moods) |-> Get(recent_moods[i], "mood_score", 5)]
        theme_counts   == count_items(all_themes, <<>>)
        avg_mood       == IF Len(mood_trends) > 0 THEN average(mood_trends)
                          ELSE [num |-> 5, den |-> 1]
        first          == mood_trends[1]
        last           == mood_trends[Len(mood_trends)]
        mood_trend     == IF Len(mood_trends) >= 2 /\ last > first THEN "improving"
                          ELSE IF Len(mood_trends) >= 2 /\ last < first THEN "declining"
                          ELSE "stable"
    IN  [ recurring_themes   |-> Take(sorted_by_count(theme_counts), 5),
          mood_trend         |-> mood_trend,
          average_mood       |-> avg_mood,
          total_entries      |-> Len(recent_entries),
          conversation_count |-> Len(conversation_history) ]

\* The suggestions before the final cut.
topic_suggestions(user_history) ==
    LET last5 == Last(user_history, 5)
        last3 == Last(user_history, 3)
        recent_themes == Flatten([i \in 1..Len(last5) |-> Get(last5[i], "themes", <<>>)])
        theme_counts  == count_items(recent_themes, <<>>)
        recent_moods  == [i \in 1..Len(last3) |-> Get(last3[i], "mood_label", "neutral")]
        by_theme  == IF Len(theme_counts) > 0
                     THEN <<"Let's explore your thoughts about " \o most_common(theme_counts)>>
                     ELSE <<>>
        by_mood   == IF \E i \in 1..Len(recent_moods) : recent_moods[i] = "negative"
                     THEN <<"I notice you've been feeling down lately. Would you like to talk about what's been challenging?">>
                     ELSE <<>>
        by_growth == Flatten([i \in 1..Len(last3) |->
                        LET growth_areas == Get(last3[i], "growth_areas", <<>>)
                        IN  IF Len(growth_areas) > 0
                            THEN <<"I see you've been working on " \o growth_areas[1] \o ". How's that going?">>
                            ELSE <<>>])
        suggestions == by_theme \o by_mood \o by_growth
    IN  IF Len(suggestions) = 0
        THEN << "How has your week been so far?",
                "Is there anything you're looking forward to?",
                "What's been the highlight of your day?" >>
        ELSE suggestions

\* ConversationAgent.suggest_conversation_topics
suggest_conversation_topics(user_history) ==
    IF Len(user_history) = 0
    THEN << "How are you feeling today?",
            "What's been on your mind lately?",
            "Is there anything you'd like to explore or discuss?" >>
    ELSE Take(topic_suggestions(user_history), 3)

\* A user's history: the analyses of the user's entries, oldest first.
RECURSIVE analyses_of(_, _)
analyses_of(rows, u) ==
    IF Len(rows) = 0 THEN <<>>
    ELSE (IF Head(rows).user_id = u THEN <<Head(rows).analysis>> ELSE <<>>)
             \o analyses_of(Tail(rows), u)

History(u) == analyses_of(journal_entries, u)

PatternReplies(llm) ==
    IF llm THEN {CallError, BadJson, NotObject, Object([insights |-> <<"mornings are calmer">>])}
    ELSE {None}

\* detect_patterns on a user's history.
DetectPatterns(u, reply) ==
    /\ jout' = [ op |-> "patterns", user |-> u,
                 body |-> detect_patterns(History(u), use_llm, reply) ]
    /\ UNCHANGED <<use_llm, agentVars, journalVars, convVars, journal_entries, now>>

\* _analyze_patterns on a user's history, which also serves as mood data.
AnalyzePatterns(u) ==
    /\ jout' = [ op |-> "plan_patterns", user |-> u,
                 body |-> analyze_patterns(History(u), History(u), <<>>) ]
    /\ UNCHANGED <<use_llm, agentVars, journalVars, convVars, journal_entries, now>>

\* suggest_conversation_topics on a user's history.
SuggestTopics(u) ==
    /\ jout' = [ op |-> "topics", user |-> u,
                 body |-> suggest_conversation_topics(History(u)) ]
    /\ UNCHANGED <<use_llm, agentVars, journalVars, convVars, journal_entries, now>>

-----------------------------------------------------------------------------
(* The journal over time *)

InitJournal == use_llm \in BOOLEAN /\ JournalIdle /\ ConvInit /\ TableInit /\ AgentIdle

NextJournal ==
    \/ \E u \in Users, sub \in Submissions(use_llm) : CreateJournalEntry(u, sub)
    \/ Wait
    \/ \E u \in Users : GetWeeklySummary(u)
    \/ \E u \in Users : GetRecurringThemes(u)
    \/ \E u \in Users, reply \in PatternReplies(use_llm) : DetectPatterns(u, reply)
    \/ \E u \in Users : AnalyzePatterns(u)
    \/ \E u \in Users : SuggestTopics(u)

SpecJournal == InitJournal /\ [][NextJournal]_vars

-----------------------------------------------------------------------------
(* The /journal/{entry_id} handlers *)

\* db.query(JournalEntry).filter(id == entry_id).first(): the row of that
\* id, whoever owns it.
find_any_entry(rows, entry_id, u) ==
    LET at == {i \in 1..Len(rows) : rows[i].id = entry_id}
    IN  IF at = {} THEN None ELSE rows[CHOOSE i \in at : \A j \in at : i <= j]

\* db.query(JournalEntry).filter(id == entry_id, user_id == current_user.id).first()
find_entry(rows, entry_id, u) ==
    LET at == {i \in 1..Len(rows) : rows[i].id = entry_id /\ rows[i].user_id = u}
    IN  IF at = {} THEN None ELSE rows[CHOOSE i \in at : \A j \in at : i <= j]

\* The ids a client asks for: those a table of MaxEntries rows can hold and
\* one more.
EntryIds == 1..(MaxEntries + 1)

NotFound(op, u, entry_id) ==
    [op |-> op, user |-> u, id |-> entry_id, status |-> 404, body |-> None]

\* get_journal_entry
GetJournalEntry(u, entry_id) ==
    /\ LET entry == find_entry(journal_entries, entry_id, u)
       IN  jout' = IF entry = None THEN NotFound("get", u, entry_id)
                   ELSE [op |-> "get", user |-> u, id |-> entry_id,
                         status |-> 200, body |-> entry]
    /\ UNCHANGED <<use_llm, agentVars, journalVars, convVars, journal_entries, now>>

\* delete_journal_entry
DeleteJournalEntry(u, entry_id) ==
    /\ LET entry == find_entry(journal_entries, entry_id, u)
           Other(row) == row # entry
       IN  IF entry = None
           THEN /\ jout' = NotFound("delete", u, entry_id)
                /\ UNCHANGED journal_entries
           ELSE /\ journal_entries' = SelectSeq(journal_entries, Other)
                /\ jout' = [op |-> "delete", user |-> u, id |-> entry_id, status |-> 200,
                            body |-> [message |-> "Journal entry deleted successfully"]]
    /\ UNCHANGED <<use_llm, agentVars, journalVars, convVars, now>>

\* get_journal_analysis that stores what the new analysis gives in the row.
GetJournalAnalysis_saving(u, entry_id, r) ==
    /\ LET entry == find_entry(journal_entries, entry_id, u)
           result == analyze_journal_entry(entry.content, use_llm, r)
       IN  IF entry = None
           THEN /\ jout' = NotFound("analysis", u, entry_id)
                /\ UNCHANGED journal_entries
           ELSE /\ jout' = [op |-> "analysis", user |-> u, id |-> entry_id, status |-> 200,
                            body |-> [ mood_score |-> Get(result, "mood_score", 5),
                                       mood_label |-> Get(result, "mood_label", "neutral") ]]
                /\ journal_entries' =
                      [ i \in 1..Len(journal_entries) |->
                          IF journal_entries[i] = entry
                          THEN [entry EXCEPT !.mood_score = Get(result, "mood_score", 5),
                                             !.mood_label = Get(result, "mood_label", "neutral")]
                          ELSE journal_entries[i] ]
    /\ UNCHANGED <<use_llm, agentVars, journalVars, convVars, now>>

\* get_journal_analysis: the entry's content is analysed again; r holds the
\* model's answers.
GetJournalAnalysis(u, entry_id, r) ==
    /\ LET entry == find_entry(journal_entries, entry_id, u)
           result == analyze_journal_entry(entry.content, use_llm, r)
       IN  jout' = IF entry = None THEN NotFound("analysis", u, entry_id)
                   ELSE [op |-> "analysis", user |-> u, id |-> entry_id, status |-> 200,
                         body |-> [ mood_score |-> Get(result, "mood_score", 5),
                                    mood_label |-> Get(result, "mood_label", "neutral"),
                                    themes |-> Get(result, "themes", <<>>),
                                    emotional_triggers |-> Get(result, "emotional_triggers", <<>>),
                                    sentiment_trend |-> Get(result, "sentiment_trend", "stable"),
                                    key_insights |-> Get(result, "key_insights", <<>>) ]]
    /\ UNCHANGED <<use_llm, agentVars, journalVars, convVars, journal_entries, now>>

\* What the users send in the runs that create, read and delete entries.
EntrySubmissions(llm) ==
    IF llm THEN {[content |-> "sad", replies |-> r] : r \in {x \in EntryReplies : x.mood = CallError}}
    ELSE {[content |-> "sad", replies |-> None]}

\* At most MaxEntries entries are created in such a run.
NextEntries ==
    \/ /\ now <= MaxEntries
       /\ \E u \in Users, sub \in EntrySubmissions(use_llm) : CreateJournalEntry(u, sub)
    \/ \E u \in Users, entry_id \in EntryIds : GetJournalEntry(u, entry_id)
    \/ \E u \in Users, entry_id \in EntryIds : DeleteJournalEntry(u, entry_id)
    \/ \E u \in Users, entry_id \in EntryIds, sub \in Submissions(use_llm) :
           GetJournalAnalysis(u, entry_id, sub.replies)

SpecEntries == InitJournal /\ [][NextEntries]_vars

-----------------------------------------------------------------------------
(* Claims on the journal analysis *)

Analysed == analysis # None

\* Some stage of the chain failed: its call raised or its reply did not parse.
StageFailed(r) ==
    \E s \in {"mood", "theme", "trigger", "insight"} :
        r[s].kind \in {"call_error", "bad_json"}

Range(f) == {f[i] : i \in DOMAIN f}

\* C1: every analysis result has a mood_score within [0,10] and a non-empty
\* mood_label, on the model path and on the fallback path.
C1_MoodScoreInRange ==
    Analysed => /\ analysis.mood_score \in 0..10
                /\ analysis.mood_label # ""

\* C4: with the model enabled, a call failure or a parse failure at any of the
\* four stages makes the result equal to _fallback_analysis(content) in every
\* field.
C4_FailureRoutesToFallback ==
    (Analysed /\ use_llm /\ StageFailed(replies))
        => analysis = fallback_analysis(Join(words))

\* The mood stage had succeeded with its own score, a later stage failed, and
\* the result is the fallback's.
C4_Witness ==
    /\ Analysed /\ use_llm
    /\ replies.mood = Object([mood_score |-> 8, mood_label |-> "hopeful"])
    /\ replies.theme.kind = "object" /\ replies.trigger.kind = "object"
    /\ replies.insight = BadJson
    /\ words = <<"sad">>
    /\ analysis.mood_score = 3

\* C5 as stated: without a model the sentence gets the themes work,
\* relationships and stress, the label neutral and the score 5.
C5_SentenceNeutral ==
    (Analysed /\ ~use_llm /\ words = Sentence)
        => /\ Range(analysis.themes) = {"work", "relationships", "stress"}
           /\ analysis.mood_label = "neutral"
           /\ analysis.mood_score = 5

\* The theme a keyword list stands for.
ThemeKeywords ==
    [ work |-> work_words, relationships |-> relationship_words,
      health |-> health_words, stress |-> stress_words ]

\* C5 amended: without a model the sentence gets exactly the themes work and
\* relationships, the label negative and the score 3 ("anxious" is a word of
\* the negative list and no stress keyword); a content holding no word of the
\* positive or negative list is neutral/5, and any content gets exactly the
\* themes whose keyword list it touches.
C5_SentenceNegative ==
    (Analysed /\ ~use_llm) =>
        LET lower == Lower(Join(words))
        IN  /\ words = Sentence =>
                /\ analysis.themes = <<"work", "relationships">>
                /\ analysis.mood_label = "negative"
                /\ analysis.mood_score = 3
            /\ (~AnyIn(positive_words, lower) /\ ~AnyIn(negative_words, lower)) =>
                /\ analysis.mood_label = "neutral"
                /\ analysis.mood_score = 5
            /\ \A t \in DOMAIN ThemeKeywords :
                t \in Range(analysis.themes) <=> AnyIn(ThemeKeywords[t], lower)

C5_Witness == Analysed /\ ~use_llm /\ words = Sentence

\* The latest text is the one before it with one word of the positive list
\* added (in any letter case) and nothing removed.
AddedPositiveWord ==
    /\ added > 0
    /\ \E i \in 1..Len(words) :
        /\ prevWords = SubSeq(words, 1, i - 1) \o SubSeq(words, i + 1, Len(words))
        /\ \E k \in 1..Len(positive_words) : Lower(words[i]) = positive_words[k]

\* C6: adding words of the positive list to a content, removing nothing, never
\* lowers the fallback mood_score.
C6_PositiveWordsMonotonic ==
    (Analysed /\ AddedPositiveWord)
        => analysis.mood_score >= prevAnalysis.mood_score

\* A positive word was added to a negative text and the score rose.
C6_Witness ==
    /\ Analysed /\ AddedPositiveWord
    /\ prevAnalysis.mood_score = 3
    /\ analysis.mood_score = 5

-----------------------------------------------------------------------------
(* Claims on the conversation agent *)

\* Worker r sends its response in this step.
Finishes(r) == reqs[r].pc # "done" /\ reqs'[r].pc = "done"

\* C2: when end_conversation(session_id) finishes, normally or with an error,
\* the map has no entry for session_id.
C2_EndAlwaysRemoves ==
    [][\A r \in Reqs :
        (Finishes(r) /\ reqs'[r].op = "end")
            => conversation_memories'[reqs'[r].sid] = None]_vars

\* C3: a failure of the model is never surfaced as an error: a request whose
\* model call failed is answered with a normal result, not with a 500.
C3_ModelFailureNeverSurfaces ==
    \A r \in Reqs :
        (reqs[r].pc = "done" /\ reqs[r].failed) => reqs[r].status = 200

-----------------------------------------------------------------------------
(* Claims on the weekly summary and the frequency tables *)

\* The latest response is that of the operation op.
Responded(op) == "op" \in DOMAIN jout /\ jout.op = op

\* The rows the weekly summary of user u is made of, in the order they are
\* handed to the agent.
WeekRows(u) == query_user_entries(u, now - WeekDays)

Scores(rows) == [i \in 1..Len(rows) |-> rows[i].mood_score]

\* C7: the average mood of a weekly summary is the arithmetic mean of the
\* scores of the entries it was given, and the trend is "stable" when the
\* first and the last of them have the same score.
C7_AverageIsMean ==
    (Responded("weekly_summary") /\ jout.body.total_entries > 0) =>
        LET scores  == Scores(WeekRows(jout.user))
            summary == jout.body.summary
        IN  /\ summary.average_mood.den > 0
            /\ summary.average_mood.num * Len(scores)
                   = Sum(scores) * summary.average_mood.den
            /\ scores[1] = scores[Len(scores)] => summary.mood_trend = "stable"

\* A summary of three entries whose first and last score agree and whose
\* middle score differs.
C7_Witness ==
    /\ Responded("weekly_summary")
    /\ LET scores == Scores(WeekRows(jout.user))
       IN  /\ Len(scores) = 3
           /\ scores[1] = scores[3]
           /\ scores[2] # scores[1]
           /\ jout.body.summary.mood_trend = "stable"

\* C8: the trend of GET /journal/weekly-summary is "improving" exactly when
\* the user's most recent entry of the week scores higher than the earliest
\* one, and "declining" exactly when it scores lower.
C8_TrendFollowsTime ==
    (Responded("weekly_summary") /\ jout.body.total_entries > 0) =>
        LET mine == {i \in 1..Len(journal_entries) :
                        /\ journal_entries[i].user_id = jout.user
                        /\ journal_entries[i].created_at >= now - WeekDays}
            earliest == CHOOSE i \in mine :
                            \A k \in mine : journal_entries[i].created_at <= journal_entries[k].created_at
            latest   == CHOOSE i \in mine :
                            \A k \in mine : journal_entries[i].created_at >= journal_entries[k].created_at
            trend    == jout.body.summary.mood_trend
        IN  /\ trend = "improving"
                <=> journal_entries[latest].mood_score > journal_entries[earliest].mood_score
            /\ trend = "declining"
                <=> journal_entries[latest].mood_score < journal_entries[earliest].mood_score

Occurrences(items, x) == Cardinality({i \in 1..Len(items) : items[i] = x})

FirstIndex(items, x) ==
    CHOOSE i \in 1..Len(items) : items[i] = x /\ \A j \in 1..(i - 1) : items[j] # x

\* x ranks ahead of y: it occurs more often, or as often and was seen first.
Ahead(items, x, y) ==
    \/ Occurrences(items, x) > Occurrences(items, y)
    \/ /\ Occurrences(items, x) = Occurrences(items, y)
       /\ FirstIndex(items, x) < FirstIndex(items, y)

\* table lists items of `items` with their counts, every one ahead of those
\* after it and of those left out.
Ranked(table, items) ==
    /\ \A i \in 1..Len(table) :
          /\ table[i][1] \in Range(items)
          /\ table[i][2] = Occurrences(items, table[i][1])
    /\ \A i, j \in 1..Len(table) :
          i < j => Ahead(items, table[i][1], table[j][1])
    /\ \A x \in Range(items) \ {table[i][1] : i \in 1..Len(table)} :
          \A i \in 1..Len(table) : Ahead(items, table[i][1], x)

ThemesOf(rows)   == Flatten([i \in 1..Len(rows) |-> rows[i].analysis.themes])
TriggersOf(rows) == Flatten([i \in 1..Len(rows) |-> rows[i].analysis.emotional_triggers])
HistoryThemes(u)   == Flatten([i \in 1..Len(History(u)) |-> History(u)[i].themes])
HistoryTriggers(u) == Flatten([i \in 1..Len(History(u)) |-> History(u)[i].emotional_triggers])

\* The frequency tables of the latest response, each with the list of items
\* that was counted for it.
Tables ==
    IF Responded("weekly_summary") /\ jout.body.total_entries > 0
    THEN { [table |-> jout.body.summary.most_common_themes,
            items |-> ThemesOf(WeekRows(jout.user))],
           [table |-> jout.body.summary.most_common_triggers,
            items |-> TriggersOf(WeekRows(jout.user))] }
    ELSE IF Responded("themes")
    THEN { [table |-> jout.body.recurring_themes,
            items |-> ThemesOf(query_user_entries(jout.user, 0))] }
    ELSE IF Responded("patterns") /\ "most_common_theme" \in DOMAIN jout.body
    THEN { [table |-> jout.body.recurring_themes, items |-> HistoryThemes(jout.user)],
           [table |-> jout.body.emotional_triggers, items |-> HistoryTriggers(jout.user)] }
    ELSE IF Responded("patterns") /\ "recurring_themes" \in DOMAIN jout.body
    THEN { [table |-> jout.body.recurring_themes, items |-> HistoryThemes(jout.user)] }
    ELSE IF Responded("plan_patterns")
    THEN { [table |-> jout.body.recurring_themes, items |-> HistoryThemes(jout.user)] }
    ELSE {}

\* C9: every frequency table is sorted by count, highest first, and items of
\* equal count stay in the order in which they were first seen.
C9_TablesRanked == \A t \in Tables : Ranked(t.table, t.items)

\* A table with a strict step and with a tie.
C9_Witness ==
    \E t \in Tables :
        /\ \E i \in 1..(Len(t.table) - 1) : t.table[i][2] > t.table[i + 1][2]
        /\ \E i \in 1..(Len(t.table) - 1) : t.table[i][2] = t.table[i + 1][2]

\* C10: a table of the summaries and of the pattern analyses has at most 5
\* rows, that of GET /journal/themes at most 10, and at most 3 conversation
\* topics are suggested.
C10_Caps ==
    /\ \A t \in Tables : Len(t.table) <= (IF Responded("themes") THEN 10 ELSE 5)
    /\ Responded("topics") => Len(jout.body) <= 3

\* GET /journal/themes answered for a user whose entries hold more than ten
\* themes.
C10_Witness ==
    /\ Responded("themes")
    /\ jout.body.unique_themes > 10
    /\ Len(jout.body.recurring_themes) = 10

-----------------------------------------------------------------------------
(* InsightsAgent.generate_mood_insights *)

\* np.argmax / np.argmin: the first position of the highest / lowest value.
argmax(xs) ==
    CHOOSE i \in 1..Len(xs) :
        /\ \A j \in 1..Len(xs) : xs[j] <= xs[i]
        /\ \A j \in 1..(i - 1) : xs[j] < xs[i]

argmin(xs) ==
    CHOOSE i \in 1..Len(xs) :
        /\ \A j \in 1..Len(xs) : xs[j] >= xs[i]
        /\ \A j \in 1..(i - 1) : xs[j] > xs[i]

\* round(sum / n, 2), in hundredths (sum >= 0; no quotient of these windows
\* lies halfway between two hundredths).
round2(sum, n) == (200 * sum + n) \div (2 * n)

\* np.std(xs) > k, for the population standard deviation:
\* n * sum(x^2) - sum(x)^2 > (k * n)^2.
std_above(xs, k) ==
    Len(xs) * Sum([i \in 1..Len(xs) |-> xs[i] * xs[i]]) - Sum(xs) * Sum(xs)
        > (k * Len(xs)) * (k * Len(xs))

\* InsightsAgent._fallback_mood_insights
fallback_mood_insights(mood_entries) ==
    IF Len(mood_entries) = 0 THEN [message |-> "No mood data available"]
    ELSE
    LET mood_scores == [i \in 1..Len(mood_entries) |-> Get(mood_entries[i], "mood_score", 5)]
    IN  [ average_mood    |-> round2(Sum(mood_scores), Len(mood_scores)),
          mood_trend      |-> "stable",
          mood_volatility |-> "medium",
          total_entries   |-> Len(mood_entries),
          insights        |-> <<"Basic mood analysis completed">>,
          key_changes     |-> <<>> ]

\* generate_mood_insights; `reply` is the model's answer to the trend prompt.
generate_mood_insights(mood_entries, llm, reply) ==
    IF Len(mood_entries) = 0 THEN [message |-> "No mood data available for analysis"]
    ELSE
    LET mood_data ==
            [ i \in 1..Len(mood_entries) |->
                [ date         |-> Get(mood_entries[i], "created_at", "None"),
                  mood_score   |-> Get(mood_entries[i], "mood_score", 5),
                  mood_label   |-> Get(mood_entries[i], "mood_label", "neutral"),
                  energy_level |-> Get(mood_entries[i], "energy_level", 5),
                  stress_level |-> Get(mood_entries[i], "stress_level", 5) ] ]
        mood_scores == [i \in 1..Len(mood_data) |-> mood_data[i].mood_score]
        first == mood_scores[1]
        last  == mood_scores[Len(mood_scores)]
        trend == IF Len(mood_scores) >= 2 /\ last > first THEN "improving"
                 ELSE IF Len(mood_scores) >= 2 /\ last < first THEN "declining"
                 ELSE "stable"
        best_day_idx  == argmax(mood_scores)
        worst_day_idx == argmin(mood_scores)
    IN  IF llm
        THEN IF reply.kind # "object"
             THEN fallback_mood_insights(mood_entries)           \* except Exception
             ELSE [ average_mood    |-> round2(Sum(mood_scores), Len(mood_scores)),
                    mood_trend      |-> trend,
                    mood_volatility |-> IF std_above(mood_scores, 2) THEN "high"
                                        ELSE IF std_above(mood_scores, 1) THEN "medium"
                                        ELSE "low",
                    best_day        |-> mood_data[best_day_idx].date,
                    worst_day       |-> mood_data[worst_day_idx].date,
                    mood_range      |-> [min |-> Min(mood_scores), max |-> Max(mood_scores)],
                    total_entries   |-> Len(mood_entries),
                    insights        |-> Get(reply.obj, "insights", <<>>),
                    key_changes     |-> Get(reply.obj, "key_changes", <<>>) ]
        ELSE fallback_mood_insights(mood_entries)

\* The mood windows a call is made with: the i-th entry is dated day i.
MoodScores == {4, 6, 8}

MoodWindow(scores) ==
    [ i \in 1..Len(scores) |->
        [ mood_score |-> scores[i], mood_label |-> "neutral",
          energy_level |-> 5, stress_level |-> 5, created_at |-> i ] ]

TrendReplies(llm) ==
    IF llm THEN {CallError, BadJson, NotObject, Object([insights |-> <<"weekends lift the mood">>])}
    ELSE {None}

MoodArgs(llm) ==
    { [op |-> "mood_insights", mood_entries |-> MoodWindow(scores), reply |-> r] :
        scores \in BoundedSeq(MoodScores, MaxMoods), r \in TrendReplies(llm) }

GenerateMoodInsights ==
    /\ arg.op = "mood_insights"
    /\ out = None
    /\ out' = generate_mood_insights(arg.mood_entries, use_llm, arg.reply)
    /\ UNCHANGED <<use_llm, arg, journalVars, convVars, tableVars>>

-----------------------------------------------------------------------------
(* PlannerAgent *)

RECURSIVE completed_themes(_)
\* The themes of the conversation activities that name one.
completed_themes(recent_activity) ==
    IF Len(recent_activity) = 0 THEN <<>>
    ELSE LET activity == Head(recent_activity)
             theme    == Get(activity, "theme", "")      \* None is as false as ""
         IN  (IF Get(activity, "type", "") = "conversation" /\ theme # ""
              THEN <<theme>> ELSE <<>>) \o completed_themes(Tail(recent_activity))

RECURSIVE new_insights(_)
new_insights(recent_activity) ==
    IF Len(recent_activity) = 0 THEN <<>>
    ELSE LET activity == Head(recent_activity)
         IN  (IF Get(activity, "type", "") = "journal"
              THEN Get(activity, "key_insights", <<>>) ELSE <<>>)
                 \o new_insights(Tail(recent_activity))

RECURSIVE without(_, _)
\* The themes whose name is not in `done`, in their order.
without(themes, done) ==
    IF Len(themes) = 0 THEN <<>>
    ELSE (IF \E i \in 1..Len(done) : done[i] = Head(themes).theme
          THEN <<>> ELSE <<Head(themes)>>) \o without(Tail(themes), done)

insights_theme ==
    [ theme |-> "recent insights", priority |-> 2, conversation_type |-> "socratic",
      goals |-> <<"Explore recent insights", "Deepen understanding">>,
      rationale |-> "Based on recent journal insights" ]

\* {**current_plan, "themes": themes, "adjusted_at": at}
adjusted(current_plan, themes, at) ==
    [ k \in DOMAIN current_plan \cup {"themes", "adjusted_at"} |->
        IF k = "themes" THEN themes
        ELSE IF k = "adjusted_at" THEN at
        ELSE current_plan[k] ]

\* adjust_plan_based_on_progress with one insights theme for every journal
\* activity that carries insights.
adjust_plan_per_activity(current_plan, recent_activity, at) ==
    adjusted(current_plan,
             without(Get(current_plan, "themes", <<>>), completed_themes(recent_activity))
                 \o [i \in 1..Len(new_insights(recent_activity)) |-> insights_theme],
             at)

\* PlannerAgent.adjust_plan_based_on_progress, called at time `at`.
adjust_plan_based_on_progress(current_plan, recent_activity, at) ==
    adjusted(current_plan,
             without(Get(current_plan, "themes", <<>>), completed_themes(recent_activity))
                 \o (IF Len(new_insights(recent_activity)) > 0
                     THEN <<insights_theme>> ELSE <<>>),
             at)

ThemeNames == {"A", "B"}

PlanTheme(name) ==
    [ theme |-> name, priority |-> 1, conversation_type |-> "general",
      goals |-> <<>>, rationale |-> "" ]

Plans ==
    { [user_id |-> 1, status |-> "active",
       themes |-> [i \in 1..Len(names) |-> PlanTheme(names[i])]] :
        names \in BoundedSeq(ThemeNames, MaxThemes) }
    \cup { [user_id |-> 1, status |-> "active"] }

Activities ==
    { [type |-> "conversation", theme |-> "A"],
      [type |-> "conversation", theme |-> "B"],
      [type |-> "conversation"],
      [type |-> "journal", theme |-> "A", key_insights |-> <<"rest helps">>],
      [type |-> "journal", key_insights |-> <<>>],
      [type |-> "mood", theme |-> "B", key_insights |-> <<"calm">>] }

AdjustArgs ==
    { [op |-> "adjust_plan", current_plan |-> plan, recent_activity |-> acts] :
        plan \in Plans, acts \in BoundedSeq(Activities, MaxActivities) }

AdjustPlan ==
    /\ arg.op = "adjust_plan"
    /\ out = None
    /\ out' = adjust_plan_based_on_progress(arg.current_plan, arg.recent_activity, now)
    /\ UNCHANGED <<use_llm, arg, journalVars, convVars, tableVars>>

\* The except branch of _analyze_patterns.
static_patterns ==
    [ recurring_themes |-> <<>>, mood_trend |-> "stable",
      average_mood |-> [num |-> 5, den |-> 1],
      total_entries |-> 0, conversation_count |-> 0 ]

\* An element of a history that is no dict: entry.get raises on it.
NoDict == [malformed |-> TRUE]

\* _analyze_patterns with its try/except.
analyze_patterns_guarded(journal_data, mood_data, conversation_history) ==
    IF \/ \E i \in 1..Len(Take(Reverse(journal_data), 10)) : Reverse(journal_data)[i] = NoDict
       \/ \E i \in 1..Len(Take(Reverse(mood_data), 7)) : Reverse(mood_data)[i] = NoDict
    THEN static_patterns
    ELSE analyze_patterns(journal_data, mood_data, conversation_history)

\* PlannerAgent._fallback_theme_selection
fallback_theme_selection ==
    [ selected_themes |-> <<"personal growth", "emotional awareness", "relationships">>,
      reasoning |-> "General wellness themes", urgency_level |-> "medium" ]

\* PlannerAgent._fallback_weekly_plan
fallback_weekly_plan ==
    [ weekly_themes |->
          << [ theme |-> "personal growth", priority |-> 1, conversation_type |-> "general",
               goals |-> <<"Explore current challenges", "Identify growth opportunities">>,
               rationale |-> "General wellness focus" ] >>,
      overall_focus |-> "Personal growth and reflection",
      expected_outcomes |-> <<"Increased self-awareness", "Better emotional understanding">> ]

\* PlannerAgent._select_themes: what json.loads returned, or the fallback.
select_themes(reply) ==
    IF reply.kind \in {"call_error", "bad_json"} THEN Object(fallback_theme_selection)
    ELSE reply

\* PlannerAgent._generate_weekly_plan: theme_selection.get raises inside the
\* try block when the selection is no dict.
generate_weekly_plan(theme_selection, reply) ==
    IF theme_selection.kind # "object" \/ reply.kind \in {"call_error", "bad_json"}
    THEN Object(fallback_weekly_plan)
    ELSE reply

\* PlannerAgent._create_fallback_plan
create_fallback_plan(user_id, at) ==
    [ user_id |-> user_id,
      week_start |-> at,
      themes |->
          << [ theme |-> "general wellness", priority |-> 1, conversation_type |-> "general",
               goals |-> <<"Check in on overall wellbeing", "Explore current thoughts and feelings">>,
               rationale |-> "Basic wellness check" ] >>,
      overall_focus |-> "General wellness and reflection",
      expected_outcomes |-> <<"Better self-awareness", "Emotional support">>,
      pattern_insights |-> static_patterns,
      status |-> "active",
      created_at |-> at ]

\* PlannerAgent.create_weekly_plan, called at time `at`; r holds the model's
\* answers to the theme selection and to the plan prompt.
create_weekly_plan(user_id, journal_data, mood_data, conversation_history, llm, r, at) ==
    LET pattern_analysis ==
            analyze_patterns_guarded(journal_data, mood_data, conversation_history)
        theme_selection == IF llm THEN select_themes(r.select)
                           ELSE Object(fallback_theme_selection)
        weekly_plan == IF llm THEN generate_weekly_plan(theme_selection, r.plan)
                       ELSE Object(fallback_weekly_plan)
    IN  IF weekly_plan.kind # "object"
        THEN create_fallback_plan(user_id, at)                   \* except Exception
        ELSE [ user_id |-> user_id,
               week_start |-> at,
               themes |-> Get(weekly_plan.obj, "weekly_themes", <<>>),
               overall_focus |-> Get(weekly_plan.obj, "overall_focus",
                                     "Personal growth and reflection"),
               expected_outcomes |-> Get(weekly_plan.obj, "expected_outcomes", <<>>),
               pattern_insights |-> pattern_analysis,
               status |-> "active",
               created_at |-> at ]

PlanHistories ==
    { <<>>,
      << [mood_score |-> 4, themes |-> <<"work", "sleep">>],
         [mood_score |-> 8, themes |-> <<"sleep">>] >>,
      << [mood_score |-> 6, themes |-> <<"work">>], NoDict >> }

SelectReplies ==
    {CallError, BadJson, NotObject, Object([selected_themes |-> <<"sleep">>])}

PlanReplies ==
    { CallError, BadJson, NotObject, Object(EmptyObject),
      Object([ weekly_themes |-> <<PlanTheme("sleep")>>, overall_focus |-> "Rest",
               expected_outcomes |-> <<"Better sleep">> ]) }

PlanArgs(llm) ==
    { [op |-> "weekly_plan", user_id |-> u, journal_entries |-> h, replies |-> r] :
        u \in Users, h \in PlanHistories,
        r \in IF llm THEN [select : SelectReplies, plan : PlanReplies] ELSE {None} }

CreateWeeklyPlan ==
    /\ arg.op = "weekly_plan"
    /\ out = None
    /\ out' = create_weekly_plan(arg.user_id, arg.journal_entries, arg.journal_entries,
                                 <<>>, use_llm, arg.replies, now)
    /\ UNCHANGED <<use_llm, arg, journalVars, convVars, tableVars>>

-----------------------------------------------------------------------------
(* Single calls of the insights and planner agents *)

InitAgents ==
    /\ use_llm \in BOOLEAN
    /\ JournalIdle /\ ConvInit /\ TableInit
    /\ arg \in MoodArgs(use_llm) \cup AdjustArgs \cup PlanArgs(use_llm)
    /\ out = None

NextAgents ==
    \/ GenerateMoodInsights
    \/ AdjustPlan
    \/ CreateWeeklyPlan

SpecAgents == InitAgents /\ [][NextAgents]_vars

-----------------------------------------------------------------------------
(* Claims on the insights and planner agents *)

\* The call with the arguments `arg` of the operation op has returned.
Called(op) == "op" \in DOMAIN arg /\ arg.op = op /\ out # None

Abs(x) == IF x < 0 THEN 0 - x ELSE x

\* C11: for a non-empty mood window generate_mood_insights returns the mean
\* of the scores (to two decimals), the trend that compares the first with
\* the last score, and entries of highest and lowest score as best and worst
\* day, whether the model is available, unavailable or fails.
C11_NumericFieldsAlways ==
    (Called("mood_insights") /\ Len(arg.mood_entries) > 0) =>
        LET scores == [i \in 1..Len(arg.mood_entries) |-> arg.mood_entries[i].mood_score]
            n      == Len(scores)
        IN  /\ 2 * Abs(out.average_mood * n - 100 * Sum(scores)) <= n
            /\ out.mood_trend = (IF scores[n] > scores[1] THEN "improving"
                                 ELSE IF scores[n] < scores[1] THEN "declining"
                                 ELSE "stable")
            /\ "best_day" \in DOMAIN out /\ scores[out.best_day] = Max(scores)
            /\ "worst_day" \in DOMAIN out /\ scores[out.worst_day] = Min(scores)

\* C12: the adjusted plan's themes are the plan's themes whose name is not
\* the theme of a conversation activity, in their order, followed by one
\* "recent insights" theme exactly when a journal activity carries a
\* non-empty key_insights list.
C12_AdjustedThemes ==
    Called("adjust_plan") =>
        LET themes == Get(arg.current_plan, "themes", <<>>)
            acts   == arg.recent_activity
            done   == {acts[i].theme : i \in {j \in 1..Len(acts) :
                          acts[j].type = "conversation" /\ "theme" \in DOMAIN acts[j]}}
            Keep(t) == t.theme \notin done
            insightful == \E i \in 1..Len(acts) :
                              /\ acts[i].type = "journal"
                              /\ "key_insights" \in DOMAIN acts[i]
                              /\ Len(acts[i].key_insights) > 0
        IN  out.themes = SelectSeq(themes, Keep)
                            \o (IF insightful THEN <<insights_theme>> ELSE <<>>)

\* The plan [A, B] adjusted after a conversation on A and nothing else.
C12_Witness ==
    /\ Called("adjust_plan")
    /\ Get(arg.current_plan, "themes", <<>>) = <<PlanTheme("A"), PlanTheme("B")>>
    /\ arg.recent_activity = <<[type |-> "conversation", theme |-> "A"]>>
    /\ out.themes = <<PlanTheme("B")>>

\* Some stage of create_weekly_plan failed: the pattern analysis raised, or a
\* model call raised or returned something other than a JSON object.
PlanStageFailed ==
    \/ \E i \in 1..Len(arg.journal_entries) : arg.journal_entries[i] = NoDict
    \/ use_llm /\ arg.replies.select.kind # "object"
    \/ use_llm /\ arg.replies.plan.kind # "object"

\* C13: when a stage of create_weekly_plan fails, the result is exactly the
\* static plan of _create_fallback_plan.
C13_FailureCollapses ==
    (Called("weekly_plan") /\ PlanStageFailed) =>
        out = create_fallback_plan(arg.user_id, now)

-----------------------------------------------------------------------------
(* Claims on the canned replies *)

KeywordSets ==
    << {"sad", "depressed", "down", "unhappy"},
       {"happy", "excited", "good", "great"},
       {"stress", "anxious", "worried", "nervous"},
       {"work", "job", "career"},
       {"relationship", "friend", "family"} >>

CannedReplies ==
    << "I hear that you're feeling down. What's been on your mind lately?",
       "That's wonderful! What's contributing to your positive mood?",
       "Stress can be really challenging. Can you tell me more about what's causing you concern?",
       "Work can be a significant part of our lives. How are things going for you professionally?",
       "Relationships are so important. What's happening in your relationships right now?" >>

GenericPrompt == "I'm here to listen and support you. What would you like to talk about today?"

\* The keyword sets of which a word occurs in the message, whatever its case.
Matching(msg) == {k \in 1..5 : \E w \in KeywordSets[k] : Contains(w, Lower(msg))}

\* A message request that was answered without the model's reply.
AnsweredWithoutModel(r) ==
    /\ reqs[r].pc = "done" /\ reqs[r].op = "message"
    /\ ~use_llm \/ reqs[r].failed

\* C14: without a model, or when its call fails, the reply is the canned reply
\* of the first keyword set, in the order low mood, positive mood, stress,
\* work, relationship, of which the message holds a word, the generic prompt
\* when it holds none, and generate_response tags its result as a fallback.
C14_FirstKeywordSetWins ==
    \A r \in Reqs :
        AnsweredWithoutModel(r) =>
            /\ reqs[r].fallback
            /\ reqs[r].status = 200
            /\ \A k \in Matching(reqs[r].msg) :
                   (\A j \in Matching(reqs[r].msg) : k <= j)
                       => reqs[r].response = CannedReplies[k]
            /\ Matching(reqs[r].msg) = {} => reqs[r].response = GenericPrompt

\* A failed model call on a message that names work before low mood.
C14_Witness ==
    \E r \in Reqs :
        /\ AnsweredWithoutModel(r)
        /\ reqs[r].failed
        /\ reqs[r].msg = "my job makes me sad"
        /\ reqs[r].response = CannedReplies[1]

-----------------------------------------------------------------------------
(* Claims on the transcripts *)

IsPrefix(xs, ys) == Len(xs) <= Len(ys) /\ SubSeq(ys, 1, Len(xs)) = xs

\* Worker r takes up a request of the operation op in this step.
Begins(r, op) == reqs[r].pc = "idle" /\ reqs'[r].pc # "idle" /\ reqs'[r].op = op

\* A start request leaves every transcript as it is.
StartCreatesNothing ==
    \A r \in Reqs : Begins(r, "start") => conversation_memories' = conversation_memories

\* Once a message for session s is taken up, s has a transcript.
MessageCreates ==
    \A r \in Reqs : Begins(r, "message") => conversation_memories'[reqs'[r].sid] # None

\* A transcript that stays is only appended to.
AppendOnly ==
    \A s \in SessionIds :
        (conversation_memories[s] # None /\ conversation_memories'[s] # None) =>
            /\ conversation_memories'[s].id = conversation_memories[s].id
            /\ IsPrefix(conversation_memories[s].messages, conversation_memories'[s].messages)

\* A transcript goes away only in a step of an end request for its session.
OnlyEndDeletes ==
    \A s \in SessionIds :
        (conversation_memories[s] # None /\ conversation_memories'[s] = None) =>
            \E r \in Reqs : reqs'[r].op = "end" /\ reqs'[r].sid = s /\ reqs'[r] # reqs[r]

\* An end request that finishes leaves no transcript of its session.
EndDeletes ==
    \A r \in Reqs :
        (Finishes(r) /\ reqs'[r].op = "end") => conversation_memories'[reqs'[r].sid] = None

\* C15: a session's transcript is absent until the first message, which
\* creates it; start creates none; from then on it is only appended to, so
\* that the transcript before a step is a prefix of the one after it; the
\* session's end deletes it.
C15_TranscriptLifecycle ==
    [][StartCreatesNothing /\ MessageCreates /\ AppendOnly /\ OnlyEndDeletes /\ EndDeletes]_vars

-----------------------------------------------------------------------------
(* Claims on the wait for the model *)

\* C16: every request that has issued a model call eventually has its
\* response, even if the model never replies.
C16_ModelCallEnds ==
    \A r \in Reqs : (reqs[r].pc = "await") ~> (reqs[r].pc = "done")

-----------------------------------------------------------------------------
(* Claims on the sessions' separation *)

\* The session of the request that worker r serves in this step.
ServedSession(r) == IF reqs'[r].pc = "idle" THEN reqs[r].sid ELSE reqs'[r].sid

\* C17: a step of a request for session s creates, changes and deletes no
\* transcript but that of s, however the requests interleave.
C17_OwnKeyOnly ==
    [][\A t \in SessionIds :
          conversation_memories'[t] # conversation_memories[t] =>
              \E r \in Reqs : reqs'[r] # reqs[r] /\ ServedSession(r) = t]_vars

\* Both sessions have a transcript and a message for s1 has just been
\* answered by the model and saved.
C17_Witness ==
    /\ conversation_memories["s1"] # None
    /\ conversation_memories["s2"] # None
    /\ Len(conversation_memories["s1"].messages) > 0
    /\ \E r \in Reqs : reqs[r].pc = "done" /\ reqs[r].op = "message"
                        /\ reqs[r].sid = "s1" /\ ~reqs[r].fallback

-----------------------------------------------------------------------------
(* Claims on the ownership of journal entries *)

\* This step answers a request of user u for the entry entry_id.
EntryRequest(u, entry_id) ==
    /\ jout' # jout
    /\ "id" \in DOMAIN jout'
    /\ jout'.op \in {"get", "delete", "analysis"}
    /\ jout'.user = u /\ jout'.id = entry_id

\* User u owns a row of that id.
Owns(u, entry_id) ==
    \E i \in 1..Len(journal_entries) :
        journal_entries[i].id = entry_id /\ journal_entries[i].user_id = u

\* C18: GET /journal/{id}, DELETE /journal/{id} and GET /journal/analysis/{id}
\* answer 404 when the caller owns no entry of that id; the answer then holds
\* nothing of any row and the table stays as it is.
C18_OwnerOnly ==
    [][\A u \in Users, entry_id \in EntryIds :
          (EntryRequest(u, entry_id) /\ ~Owns(u, entry_id)) =>
              /\ jout'.status = 404
              /\ jout'.body = None
              /\ journal_entries' = journal_entries]_vars

\* A user was refused the deletion of an entry that another user owns.
C18_Witness ==
    /\ "id" \in DOMAIN jout
    /\ jout.op = "delete" /\ jout.status = 404
    /\ \E i \in 1..Len(journal_entries) :
          journal_entries[i].id = jout.id /\ journal_entries[i].user_id # jout.user

-----------------------------------------------------------------------------
(* GET /conversation/history and GET /conversation/sessions *)

\* What each user writes in the runs of two users.
MessageOf == <<"I am sad", "my job is hard">>

RECURSIVE rows_where(_, _, _)
\* The rows of the conversations table of user u (of any user when u = 0)
\* and of session sid (of any session when sid = ""), latest first.
rows_where(rows, u, sid) ==
    IF Len(rows) = 0 THEN <<>>
    ELSE rows_where(Tail(rows), u, sid)
            \o (IF /\ (u = 0 \/ Head(rows).user_id = u)
                   /\ (sid = "" \/ Head(rows).session_id = sid)
                THEN <<Head(rows)>> ELSE <<>>)

RECURSIVE distinct_sessions(_, _)
\* The session ids of the rows, each once.
distinct_sessions(rows, seen) ==
    IF Len(rows) = 0 THEN <<>>
    ELSE IF Head(rows).session_id \in seen THEN distinct_sessions(Tail(rows), seen)
    ELSE <<Head(rows).session_id>>
            \o distinct_sessions(Tail(rows), seen \cup {Head(rows).session_id})

\* get_conversation_history with skip = 0 and limit = 20; session_id "" is
\* the parameter left out.
GetHistory(u, session_id) ==
    /\ jout' = [ op |-> "history", user |-> u,
                 body |-> Take(rows_where(conversations, u, session_id), 20) ]
    /\ UNCHANGED <<use_llm, agentVars, journalVars, convVars, journal_entries, now>>

\* get_active_sessions: the latest row of each of the user's sessions is
\* looked up by session_id alone.
GetSessions(u) ==
    /\ LET sessions == distinct_sessions(rows_where(conversations, u, ""), {})
           session_list ==
               [ i \in 1..Len(sessions) |->
                   LET latest == rows_where(conversations, 0, sessions[i])[1]
                   IN  [ session_id    |-> sessions[i],
                         last_message  |-> latest.message,
                         last_response |-> latest.response ] ]
       IN  jout' = [ op |-> "sessions", user |-> u,
                     body |-> [ active_sessions |-> session_list,
                                total_sessions  |-> Len(session_list) ] ]
    /\ UNCHANGED <<use_llm, agentVars, journalVars, convVars, journal_entries, now>>

\* Two users, one request at a time.
NextUsers ==
    \/ \E u \in Users : StartConversation(1, u)
    \/ \E u \in Users, sid \in SessionIds : MessageBegin(1, u, sid, MessageOf[u])
    \/ MessageReply(1)
    \/ MessageFail(1)
    \/ \E u \in Users, sid \in SessionIds : EndBegin(1, u, sid)
    \/ EndSummary(1)
    \/ EndFail(1)
    \/ Return(1)
    \/ \E u \in Users, sid \in SessionIds \cup {""} : GetHistory(u, sid)
    \/ \E u \in Users : GetSessions(u)

SpecUsers == InitConv /\ [][NextUsers]_vars

-----------------------------------------------------------------------------
(* Claims on the separation of users *)

\* The transcript that the request of worker r works on holds only turns of
\* the request's user.
OwnTranscript(r) ==
    LET memory == conversation_memories[reqs[r].sid]
    IN  (memory # None /\ memory.id = reqs[r].memory) =>
            \A i \in 1..Len(memory.messages) :
                memory.messages[i].role = "human"
                    => memory.messages[i].text = MessageOf[reqs[r].user]

\* C19: what GET /conversation/history and GET /conversation/sessions return
\* to a user are messages of that user, and the transcript that a message or
\* end request of a user hands to the model holds turns of that user only.
C19_NoCrossUserData ==
    /\ Responded("history") =>
          \A i \in 1..Len(jout.body) : jout.body[i].user_id = jout.user
    /\ Responded("sessions") =>
          \A i \in 1..Len(jout.body.active_sessions) :
              jout.body.active_sessions[i].last_message = MessageOf[jout.user]
    /\ \A r \in Reqs : reqs[r].pc = "await" => OwnTranscript(r)

-----------------------------------------------------------------------------
(* GET /conversation/suggestions *)

\* The themes a message request names; "" is the theme left out.
RequestThemes == {"", "work", "family"}

\* history_data of get_conversation_suggestions: one dict per row, the
\* latest MaxRecent rows of the user, latest first.  Requests keep the
\* default conversation_type; created_at is the row's place in the table.
MaxRecent == 10

history_data(rows, u) ==
    LET recent_entries == Take(rows_where(rows, u, ""), MaxRecent)
    IN  [ i \in 1..Len(recent_entries) |->
            [ type              |-> "conversation",
              theme             |-> recent_entries[i].theme,
              conversation_type |-> "general",
              created_at        |-> Len(recent_entries) - i + 1 ] ]

\* get_conversation_suggestions
GetSuggestions(u) ==
    /\ jout' = [ op |-> "suggestions", user |-> u,
                 body |-> [ suggestions |-> suggest_conversation_topics(history_data(conversations, u)),
                            total_conversations |->
                                Len(Take(rows_where(conversations, u, ""), MaxRecent)) ] ]
    /\ UNCHANGED <<use_llm, agentVars, journalVars, convVars, journal_entries, now>>

\* Messages with themes by two users, one request at a time, and the
\* suggestions asked for in between.
NextSuggest ==
    \/ \E u \in Users, theme \in RequestThemes :
            SendMessage(1, u, "s1", MessageOf[u], theme)
    \/ MessageReply(1)
    \/ MessageFail(1)
    \/ Return(1)
    \/ \E u \in Users : GetSuggestions(u)
    \/ \E u \in Users : GetHistory(u, "")

SpecSuggest == InitConv /\ [][NextSuggest]_vars

-----------------------------------------------------------------------------
(* Claims on the conversation suggestions *)

\* The themes named in the rows of user u.
NamedThemes(u) ==
    LET rows == rows_where(conversations, u, "")
    IN  {rows[i].theme : i \in 1..Len(rows)} \ {""}

\* C20: GET /conversation/suggestions answers the three generic prompts to a
\* user without history and one to three suggestions otherwise, and when the
\* user's recent messages name a theme, a suggestion is about such a theme.
C20_ThemesReachSuggestions ==
    Responded("suggestions") =>
        LET suggestions == jout.body.suggestions
        IN  /\ jout.body.total_conversations = 0 =>
                  suggestions = << "How are you feeling today?",
                                   "What's been on your mind lately?",
                                   "Is there anything you'd like to explore or discuss?" >>
            /\ jout.body.total_conversations > 0 => Len(suggestions) \in 1..3
            /\ NamedThemes(jout.user) # {} =>
                  \E i \in 1..Len(suggestions), t \in NamedThemes(jout.user) :
                      suggestions[i] = "Let's explore your thoughts about " \o t

-----------------------------------------------------------------------------
(* InsightsAgent.analyze_habit_correlations *)

MaxHabits == 3

HabitNames == {"run", "read"}

\* Values np.random.uniform(-0.8, 0.8) can give, in ten-thousandths.
Coefficients == {-5000, -3000, 0, 3004, 5000}

\* round(correlation, 3), in thousandths.
round3(c) == IF c >= 0 THEN (c + 5) \div 10 ELSE 0 - ((5 - c) \div 10)

RECURSIVE unique(_, _)
\* habit_df['habit_name'].unique(): the names in order of first appearance.
unique(names, seen) ==
    IF Len(names) = 0 THEN <<>>
    ELSE IF Head(names) \in seen THEN unique(Tail(names), seen)
    ELSE <<Head(names)>> \o unique(Tail(names), seen \cup {Head(names)})

RECURSIVE habits_where(_, _)
\* The names of the dict entries whose impact is the given one, in order.
habits_where(correlations, impact) ==
    IF Len(correlations) = 0 THEN <<>>
    ELSE (IF Head(correlations).impact = impact
          THEN <<Head(correlations).habit_name>> ELSE <<>>)
            \o habits_where(Tail(correlations), impact)

\* The label of a drawn value.
impact_of(correlation) ==
    IF correlation > 3000 THEN "positive"
    ELSE IF correlation < -3000 THEN "negative" ELSE "neutral"

\* The correlations dict as the sequence of its items; drawn[h] is the value
\* np.random.uniform gives for habit h.
habit_correlations(mood_entries, habit_entries, drawn) ==
    LET names == unique([i \in 1..Len(habit_entries) |-> habit_entries[i].habit_name], {})
        habit_data(h) == SelectSeq(habit_entries, LAMBDA e : e.habit_name = h)
        item(h) == IF Len(habit_data(h)) > 1 /\ Len(mood_entries) > 1
                   THEN << [ habit_name  |-> h,
                             correlation |-> round3(drawn[h]),
                             impact      |-> impact_of(drawn[h]) ] >>
                   ELSE <<>>
    IN  Flatten([i \in 1..Len(names) |-> item(names[i])])

\* analyze_habit_correlations; reply is the outcome of the model call.
analyze_habit_correlations(mood_entries, habit_entries, drawn, llm, reply) ==
    IF Len(mood_entries) = 0 \/ Len(habit_entries) = 0
    THEN [message |-> "Insufficient data for correlation analysis"]
    ELSE LET correlations == habit_correlations(mood_entries, habit_entries, drawn)
         IN  IF llm /\ reply.kind \in {"call_error", "bad_json", "not_object"}
             THEN [message |-> "Unable to analyze habit correlations", error |-> reply.kind]
             ELSE [ correlations    |-> correlations,
                    positive_habits |-> habits_where(correlations, "positive"),
                    negative_habits |-> habits_where(correlations, "negative"),
                    insights        |-> IF llm THEN Get(reply.obj, "insights", <<>>)
                                        ELSE <<"Basic habit correlation analysis completed">>,
                    recommendations |-> IF llm THEN Get(reply.obj, "recommendations", <<>>)
                                        ELSE <<"Continue tracking habits and mood to build patterns">> ]

CorrelationReplies(llm) ==
    IF llm THEN {CallError, BadJson, Object([insights |-> <<"running helps">>])}
    ELSE {None}

HabitArgs(llm) ==
    { [op |-> "habit_correlations", mood_entries |-> MoodWindow(scores),
       habit_entries |-> [i \in 1..Len(names) |-> [habit_name |-> names[i]]],
       reply |-> r] :
        scores \in BoundedSeq(MoodScores, 2), names \in BoundedSeq(HabitNames, MaxHabits),
        r \in CorrelationReplies(llm) }

AnalyzeHabitCorrelations ==
    /\ arg.op = "habit_correlations"
    /\ out = None
    /\ \E drawn \in [HabitNames -> Coefficients] :
          out' = analyze_habit_correlations(arg.mood_entries, arg.habit_entries,
                                            drawn, use_llm, arg.reply)
    /\ UNCHANGED <<use_llm, arg, journalVars, convVars, tableVars>>

InitHabits ==
    /\ use_llm \in BOOLEAN
    /\ JournalIdle /\ ConvInit /\ TableInit
    /\ arg \in HabitArgs(use_llm)
    /\ out = None

NextHabits == AnalyzeHabitCorrelations

SpecHabits == InitHabits /\ [][NextHabits]_vars

-----------------------------------------------------------------------------
(* Claims on the habit correlations *)

\* The habit names that occur at least twice in the entries.
Repeated(habit_entries) ==
    { h \in HabitNames :
        Cardinality({i \in 1..Len(habit_entries) : habit_entries[i].habit_name = h}) >= 2 }

\* C21: with mood data and habit entries, analyze_habit_correlations
\* returns a correlation entry for exactly the habit names that occur at
\* least twice, each labelled positive above 0.3, negative below -0.3 and
\* neutral otherwise, and positive_habits and negative_habits are disjoint
\* sets of such names.
C21_CorrelationPerRepeatedHabit ==
    (Called("habit_correlations") /\ Len(arg.mood_entries) > 0 /\ Len(arg.habit_entries) > 0) =>
        /\ "correlations" \in DOMAIN out
        /\ LET correlations == out.correlations
               keys == {correlations[i].habit_name : i \in 1..Len(correlations)}
           IN  /\ keys = Repeated(arg.habit_entries)
               /\ \A i \in 1..Len(correlations) :
                      correlations[i].impact =
                          IF correlations[i].correlation > 300 THEN "positive"
                          ELSE IF correlations[i].correlation < -300 THEN "negative"
                          ELSE "neutral"
               /\ Range(out.positive_habits) \subseteq keys
               /\ Range(out.negative_habits) \subseteq keys
               /\ Range(out.positive_habits) \cap Range(out.negative_habits) = {}

-----------------------------------------------------------------------------
(* GET /insights/patterns and GET /insights/weekly-summary *)

\* The window of get_pattern_analysis, in days.
PatternDays == 30

\* The items a for loop or list.extend draws from a str: its characters.
characters(text) == [i \in 1..Len(text) |-> SubSeq(text, i, i)]

\* db.query(JournalEntry).filter(user_id == u, created_at >= since).all()
entries_since(u, since) ==
    SelectSeq(journal_entries, LAMBDA e : e.user_id = u /\ e.created_at >= since)

\* journal_data of the two handlers: themes and emotional_triggers are the
\* columns as stored, the JSON text, which the agent then iterates.
insights_journal_data(entries) ==
    [ i \in 1..Len(entries) |->
        [ content            |-> entries[i].content,
          mood_score         |-> entries[i].mood_score,
          mood_label         |-> entries[i].mood_label,
          themes             |-> characters(entries[i].themes),
          emotional_triggers |-> characters(entries[i].emotional_triggers),
          created_at         |-> entries[i].created_at ] ]

\* InsightsAgent._fallback_weekly_summary_content
fallback_weekly_summary_content ==
    [ overall_mood     |-> "neutral",
      key_achievements |-> <<"Completed weekly reflection">>,
      areas_of_growth  |-> <<"Continue journaling and mood tracking">>,
      recommendations  |-> <<"Keep up the good work">>,
      next_week_focus  |-> "General wellness",
      encouragement    |-> "You're doing great! Keep reflecting and growing." ]

\* InsightsAgent.generate_weekly_summary; reply is the outcome of the
\* summary call.
insights_weekly_summary(mood_insights, correlations, pattern_analysis, llm, reply) ==
    [ week_summary       |-> IF llm /\ reply.kind = "object" THEN reply.obj
                             ELSE fallback_weekly_summary_content,
      mood_insights      |-> mood_insights,
      habit_correlations |-> correlations,
      pattern_analysis   |-> pattern_analysis ]

SummaryReplies(llm) ==
    IF llm THEN {CallError, Object([overall_mood |-> "steady"])} ELSE {None}

\* get_pattern_analysis.  No request of the runs writes a mood entry: the
\* table of mood entries is empty.
GetPatternAnalysis(u, reply) ==
    /\ LET entries == entries_since(u, now - PatternDays)
       IN  jout' = [ op |-> "insights_patterns", user |-> u,
                     body |-> [ patterns |-> detect_patterns(insights_journal_data(entries),
                                                             use_llm, reply),
                                total_journal_entries |-> Len(entries),
                                total_mood_entries    |-> 0 ] ]
    /\ UNCHANGED <<use_llm, agentVars, journalVars, convVars, journal_entries, now>>

\* get_weekly_summary of the insights router, with the tables of mood and
\* habit entries empty.
GetInsightsSummary(u, reply, summary_reply) ==
    /\ LET entries == entries_since(u, now - WeekDays)
           mood_insights      == generate_mood_insights(<<>>, use_llm, None)
           correlations       == analyze_habit_correlations(<<>>, <<>>, <<>>, use_llm, None)
           pattern_analysis   == detect_patterns(insights_journal_data(entries), use_llm, reply)
       IN  jout' = [ op |-> "insights_summary", user |-> u,
                     body |-> [ summary |-> insights_weekly_summary(mood_insights, correlations,
                                                pattern_analysis, use_llm, summary_reply),
                                total_journal_entries |-> Len(entries),
                                total_mood_entries    |-> 0,
                                total_habit_entries   |-> 0 ] ]
    /\ UNCHANGED <<use_llm, agentVars, journalVars, convVars, journal_entries, now>>

\* Entries whose analysis names few themes and triggers.
ShortReplies ==
    { [ mood    |-> Object([mood_score |-> 6, mood_label |-> "negative"]),
        theme   |-> Object([themes |-> <<"work">>]),
        trigger |-> Object([emotional_triggers |-> <<"noise">>]),
        insight |-> Object(EmptyObject) ],
      [ mood    |-> Object([mood_score |-> 8, mood_label |-> "calm"]),
        theme   |-> Object([themes |-> <<"art", "work">>]),
        trigger |-> Object(EmptyObject),
        insight |-> Object(EmptyObject) ] }

ShortSubmissions(llm) ==
    IF llm
    THEN {[content |-> "sad", replies |-> r] : r \in ShortReplies}
    ELSE {[content |-> c, replies |-> None] : c \in Contents}

NextInsights ==
    \/ /\ Len(journal_entries) < MaxRows
       /\ \E u \in Users, sub \in ShortSubmissions(use_llm) : CreateJournalEntry(u, sub)
    \/ Wait
    \/ \E u \in Users : GetWeeklySummary(u)
    \/ \E u \in Users : GetRecurringThemes(u)
    \/ \E u \in Users, reply \in PatternReplies(use_llm) : GetPatternAnalysis(u, reply)
    \/ \E u \in Users, reply \in PatternReplies(use_llm), summary_reply \in SummaryReplies(use_llm) :
            GetInsightsSummary(u, reply, summary_reply)

SpecInsights == InitJournal /\ [][NextInsights]_vars

-----------------------------------------------------------------------------
(* Claims on the stored lists *)

\* Every row of the table is an item of `items` with the number of times it
\* occurs there.
CountsOf(table, items) ==
    \A i \in 1..Len(table) :
        /\ table[i][1] \in Range(items)
        /\ table[i][2] = Occurrences(items, table[i][1])

\* The tables of a pattern analysis of the rows, against the themes and
\* triggers of the analyses the rows were made from.
PatternCounts(patterns, rows) ==
    /\ "recurring_themes" \in DOMAIN patterns
          => CountsOf(patterns.recurring_themes, ThemesOf(rows))
    /\ "emotional_triggers" \in DOMAIN patterns
          => CountsOf(patterns.emotional_triggers, TriggersOf(rows))

\* C22: the themes and triggers counted by GET /insights/patterns, GET
\* /insights/weekly-summary, GET /journal/weekly-summary and GET
\* /journal/themes are the strings that the analysis produced when the
\* entries were created, with the number of their occurrences.
C22_CountedItemsAreStoredItems ==
    /\ Responded("insights_patterns") =>
          PatternCounts(jout.body.patterns, entries_since(jout.user, now - PatternDays))
    /\ Responded("insights_summary") =>
          PatternCounts(jout.body.summary.pattern_analysis,
                        entries_since(jout.user, now - WeekDays))
    /\ Responded("weekly_summary") /\ jout.body.total_entries > 0 =>
          /\ CountsOf(jout.body.summary.most_common_themes, ThemesOf(WeekRows(jout.user)))
          /\ CountsOf(jout.body.summary.most_common_triggers, TriggersOf(WeekRows(jout.user)))
    /\ Responded("themes") =>
          CountsOf(jout.body.recurring_themes, ThemesOf(query_user_entries(jout.user, 0)))

-----------------------------------------------------------------------------
(* Claims on detect_patterns *)

\* table is the top five of the items, by count, with the counts.
TopFive(table, items) ==
    /\ Ranked(table, items)
    /\ Len(table) = (IF Cardinality(Range(items)) < 5 THEN Cardinality(Range(items)) ELSE 5)

\* C23: for a non-empty history detect_patterns returns the top five themes
\* and the top five triggers with their counts and the most frequent theme
\* and trigger, with a model, without one and when the model call fails.
C23_CountedFieldsOnEveryPath ==
    (Responded("patterns") /\ Len(History(jout.user)) > 0) =>
        /\ {"recurring_themes", "emotional_triggers",
            "most_common_theme", "most_common_trigger"} \subseteq DOMAIN jout.body
        /\ TopFive(jout.body.recurring_themes, HistoryThemes(jout.user))
        /\ TopFive(jout.body.emotional_triggers, HistoryTriggers(jout.user))
        /\ Len(jout.body.recurring_themes) > 0
              => jout.body.most_common_theme = jout.body.recurring_themes[1][1]
        /\ Len(jout.body.emotional_triggers) > 0
              => jout.body.most_common_trigger = jout.body.emotional_triggers[1][1]

-----------------------------------------------------------------------------
(* POST /journal/analyze-text beside the stored entries *)

\* analyze_text: the analysis of the text is returned, nothing is stored.
PostAnalyzeText(u, sub) ==
    /\ jout' = [ op |-> "analyze_text", user |-> u, status |-> 200,
                 body |-> [ analysis |-> analyze_journal_entry(sub.content, use_llm, sub.replies),
                            content  |-> sub.content ] ]
    /\ UNCHANGED <<use_llm, agentVars, journalVars, convVars, journal_entries, now>>

\* Entries are created and analysed again, texts are analysed.
NextStored ==
    \/ /\ Len(journal_entries) < MaxRows
       /\ \E u \in Users, sub \in ShortSubmissions(use_llm) : CreateJournalEntry(u, sub)
    \/ \E u \in Users, entry_id \in EntryIds, sub \in ShortSubmissions(use_llm) :
           GetJournalAnalysis(u, entry_id, sub.replies)
    \/ \E u \in Users, sub \in ShortSubmissions(use_llm) : PostAnalyzeText(u, sub)
    \/ \E u \in Users, entry_id \in EntryIds : GetJournalEntry(u, entry_id)

SpecStored == InitJournal /\ [][NextStored]_vars

-----------------------------------------------------------------------------
(* Claims on the stored analysis *)

\* C24: POST /journal/analyze-text and GET /journal/analysis/{id} leave the
\* table of journal entries as it is: no row is created and the stored
\* content, mood and lists of every row stay what they were at creation.
C24_AnalysisStoresNothing ==
    [][("op" \in DOMAIN jout' /\ jout'.op \in {"analysis", "analyze_text"})
          => journal_entries' = journal_entries]_vars

\* The analysis of a stored entry was run again and gave another mood than
\* the one stored, and the row still holds the stored one.
C24_Witness ==
    /\ Responded("analysis") /\ jout.status = 200
    /\ \E i \in 1..Len(journal_entries) :
          /\ journal_entries[i].id = jout.id
          /\ journal_entries[i].user_id = jout.user
          /\ journal_entries[i].mood_score # jout.body.mood_score
          /\ journal_entries[i].mood_score = journal_entries[i].analysis.mood_score

-----------------------------------------------------------------------------
(* Claims on overlapping conversation requests *)

\* Workers r1 and r2 served end requests that read the same transcript
\* object, and the summary call of both has returned.
EndedTogether(r1, r2) ==
    /\ r1 # r2
    /\ reqs[r1].op = "end" /\ reqs[r2].op = "end"
    /\ reqs[r1].pc = "done" /\ reqs[r2].pc = "done"
    /\ reqs[r1].sid = reqs[r2].sid
    /\ reqs[r1].memory # 0 /\ reqs[r1].memory = reqs[r2].memory
    /\ ~reqs[r1].failed /\ ~reqs[r2].failed

\* C25: two end requests for one session that both read the transcript
\* before either deleted it both complete normally.
C25_OverlappingEndsSucceed ==
    \A r1, r2 \in Reqs :
        EndedTogether(r1, r2) => reqs[r1].status = 200 /\ reqs[r2].status = 200

\* Worker r finishes an end request for session s normally in this step.
EndCompletes(r, s) ==
    /\ reqs[r].pc # "done" /\ reqs'[r].pc = "done"
    /\ reqs'[r].op = "end" /\ reqs'[r].sid = s /\ reqs'[r].status = 200

\* Worker r takes up a message request for session s in this step.
MessageStarts(r, s) ==
    /\ reqs[r].pc = "idle" /\ reqs'[r].pc # "idle"
    /\ reqs'[r].op = "message" /\ reqs'[r].sid = s

\* C26: when an end request for s completes, the map holds no transcript
\* for s, and a session without transcript gets one only in the step in
\* which a message request for s starts: a model reply that arrives after
\* the end puts nothing into the map.
C26_NoResurrection ==
    [][\A s \in SessionIds :
          /\ (\E r \in Reqs : EndCompletes(r, s)) => conversation_memories'[s] = None
          /\ (conversation_memories[s] = None /\ conversation_memories'[s] # None)
                => \E r \in Reqs : MessageStarts(r, s)]_vars

\* An end request has completed and deleted the transcript that a message
\* request, still waiting for its model reply, works on.
C26_Witness ==
    \E r1, r2 \in Reqs :
        /\ reqs[r1].op = "message" /\ reqs[r1].pc = "await"
        /\ reqs[r2].op = "end" /\ reqs[r2].pc = "done" /\ reqs[r2].status = 200
        /\ reqs[r2].sid = reqs[r1].sid
        /\ reqs[r2].memory = reqs[r1].memory
        /\ conversation_memories[reqs[r1].sid] = None

\* Requests on one session, with two message texts.
TurnTexts == {"I am sad", "my job is hard"}

NextTurns ==
    \E r \in Reqs :
        \/ \E msg \in TurnTexts : MessageBegin(r, Caller, "s1", msg)
        \/ MessageReply(r)
        \/ MessageFail(r)
        \/ EndBegin(r, Caller, "s1")
        \/ EndSummary(r)
        \/ EndFail(r)
        \/ Return(r)

SpecTurns == InitConv /\ [][NextTurns]_vars

\* The two turns a message request writes when its model call succeeds.
TurnsOf(r) ==
    <<[role |-> "human", text |-> reqs[r].msg], [role |-> "ai", text |-> ModelReply]>>

\* The model call of worker r's message request succeeds in this step.
ReplyArrives(r) ==
    /\ reqs[r].op = "message" /\ reqs[r].pc = "await"
    /\ reqs'[r].pc = "done" /\ ~reqs'[r].fallback

\* The map holds the transcript object that worker r's request works on.
HoldsObject(r) ==
    /\ conversation_memories[reqs[r].sid] # None
    /\ conversation_memories[reqs[r].sid].id = reqs[r].memory

\* C27: a message request for a session that has a transcript works on that
\* object and creates none, and a model reply appends the request's two
\* turns behind all turns the transcript holds by then: of message requests
\* that overlap without an end in between no turn is lost or written twice.
C27_NoTurnLost ==
    [][\A r \in Reqs :
          /\ \A s \in SessionIds :
                (MessageStarts(r, s) /\ conversation_memories[s] # None) =>
                    /\ conversation_memories'[s] = conversation_memories[s]
                    /\ reqs'[r].pc = "await" => reqs'[r].memory = conversation_memories[s].id
          /\ (ReplyArrives(r) /\ HoldsObject(r)) =>
                conversation_memories'[reqs[r].sid].messages =
                    conversation_memories[reqs[r].sid].messages \o TurnsOf(r)]_vars

\* Two message requests with different texts worked on one transcript
\* object, both model calls succeeded, and the transcript holds the turns of
\* one followed by the turns of the other.
C27_Witness ==
    \E r1, r2 \in Reqs :
        /\ r1 # r2
        /\ reqs[r1].op = "message" /\ reqs[r2].op = "message"
        /\ reqs[r1].pc = "done" /\ reqs[r2].pc = "done"
        /\ ~reqs[r1].fallback /\ ~reqs[r2].fallback
        /\ reqs[r1].msg # reqs[r2].msg
        /\ reqs[r1].memory = reqs[r2].memory
        /\ HoldsObject(r1)
        /\ conversation_memories[reqs[r1].sid].messages = TurnsOf(r1) \o TurnsOf(r2)

-----------------------------------------------------------------------------
(* A plan that is adjusted again *)

MaxAdjustments == 2

\* adjust_plan_based_on_progress on the plan it returned before, with the
\* same recent activity, at a later time.
AdjustPlanAgain ==
    /\ arg.op = "adjust_plan"
    /\ out # None
    /\ now <= MaxAdjustments
    /\ now' = now + 1
    /\ out' = adjust_plan_based_on_progress(out, arg.recent_activity, now')
    /\ UNCHANGED <<use_llm, arg, journalVars, convVars, journal_entries, jout>>

InitAdjust ==
    /\ use_llm \in BOOLEAN
    /\ JournalIdle /\ ConvInit /\ TableInit
    /\ arg \in AdjustArgs
    /\ out = None

NextAdjust ==
    \/ AdjustPlan
    \/ AdjustPlanAgain

SpecAdjust == InitAdjust /\ [][NextAdjust]_vars

\* C28: a plan adjusted several times with the same recent activity has the
\* themes of the plan adjusted once, and at most one "recent insights"
\* theme.
C28_AdjustIdempotent ==
    Called("adjust_plan") =>
        /\ out.themes = adjust_plan_based_on_progress(arg.current_plan,
                                                      arg.recent_activity, now).themes
        /\ Cardinality({i \in 1..Len(out.themes) :
                            out.themes[i].theme = "recent insights"}) <= 1

-----------------------------------------------------------------------------
(* Claims on the agent without a model *)

\* C29: without a model the map of transcripts stays empty: a message is
\* answered from the keyword fallback at once and creates no transcript, an
\* end returns the plain closing message, and no request waits for a model.
C29_NoModelNoTranscript ==
    ~use_llm =>
        /\ \A s \in SessionIds : conversation_memories[s] = None
        /\ \A r \in Reqs :
              /\ reqs[r].pc # "await"
              /\ reqs[r].memory = 0
              /\ (reqs[r].op = "message" /\ reqs[r].pc = "done") =>
                    /\ reqs[r].status = 200 /\ reqs[r].fallback
                    /\ reqs[r].response = fallback_response(reqs[r].msg)
              /\ (reqs[r].op = "end" /\ reqs[r].pc = "done") =>
                    reqs[r].status = 200 /\ reqs[r].response = "closing"

\* Without a model, a message on a session was answered and stored, and an
\* end request for that session has returned.
C29_Witness ==
    /\ ~use_llm
    /\ \E r \in Reqs, i \in 1..Len(conversations) :
          /\ reqs[r].op = "end" /\ reqs[r].pc = "done"
          /\ conversations[i].session_id = reqs[r].sid
          /\ conversations[i].response = fallback_response(conversations[i].message)

-----------------------------------------------------------------------------
(* Claims on a failing model call *)

\* The model call of worker r's message request fails in this step.
CallFails(r) ==
    /\ reqs[r].op = "message" /\ reqs[r].pc = "await"
    /\ reqs'[r].pc = "done" /\ reqs'[r].failed

\* The rows stored for session s.
RowsOf(s) == {i \in 1..Len(conversations) : conversations[i].session_id = s}

\* C30: when the model call of a message fails, every transcript stays as
\* it is, the request is answered with the keyword fallback, and one row
\* with that reply is added to the conversations table.
C30_FailedCallKeepsTranscript ==
    [][\A r \in Reqs :
          CallFails(r) =>
              /\ conversation_memories' = conversation_memories
              /\ reqs'[r].status = 200
              /\ reqs'[r].response = fallback_response(reqs[r].msg)
              /\ conversations' = Append(conversations,
                     [ user_id |-> reqs[r].user, session_id |-> reqs[r].sid,
                       message |-> reqs[r].msg,
                       response |-> fallback_response(reqs[r].msg),
                       theme |-> reqs[r].theme ])]_vars

\* A failed message has been answered, and its session's transcript, still
\* in the map, holds fewer turns than rows are stored for the session.
C30_Witness ==
    \E r \in Reqs :
        /\ reqs[r].op = "message" /\ reqs[r].pc = "done" /\ reqs[r].failed
        /\ HoldsObject(r)
        /\ 2 * Cardinality(RowsOf(reqs[r].sid))
              > Len(conversation_memories[reqs[r].sid].messages)

====
